---- MODULE Spec2Model ----
(***************************************************************************)
(* Model of relay-rs (src/relay-rs/src/main.rs): the per-connection        *)
(* receive loop, the event ingestion pipeline (handle_event), the          *)
(* whitelist cache (check_whitelist_cached), NIP-42 AUTH, the NIP-86       *)
(* admin RPC, the subscription path (handle_req, handle_prefix_search_req, *)
(* CLOSE) and the delivery of broadcast events to the subscriptions of a   *)
(* connection.  Every await point of a handler is one step of the          *)
(* connection that runs it, so that handlers of different connections      *)
(* interleave exactly where the tokio tasks can.                           *)
(***************************************************************************)
EXTENDS Integers, Sequences, FiniteSets, TLC

(***************************************************************************)
(* Bounds of the model.                                                    *)
(***************************************************************************)
\* The wall clock runs from 0 to MaxTime.
MaxTime == 1
\* Capacity of the broadcast channel kept by the model (1000 in main.rs:64).
HubCap == 1
\* Frames received in one run of interleaving handlers.
MaxFrames == 3

Conns == {1, 2}
Pubkeys == {"PA", "P1", "P2", "P3"}

(***************************************************************************)
(* Events.  id stands for the 32-byte event id (read as a number),         *)
(* sig_ok for "id is the hash of the content and sig verifies it".         *)
(* A tag is a sequence of strings; the value of an e tag is an event id.   *)
(***************************************************************************)
Ev(id, pk, kind, t, tags, ok) ==
    [id |-> id, pubkey |-> pk, kind |-> kind, created_at |-> t,
     tags |-> tags, sig_ok |-> ok]

NoEv == Ev(0, "", 0, 0, <<>>, FALSE)

\* regular notes
N1 == Ev(1, "P1", 1, 1, <<>>, TRUE)
N2 == Ev(2, "P2", 1, 1, <<>>, TRUE)
N3 == Ev(3, "P3", 1, 1, <<>>, TRUE)
\* a forged note: the signature does not verify
BAD == Ev(4, "P1", 1, 1, <<>>, FALSE)
\* notes with NIP-40 expiration tags
X1 == Ev(5, "P1", 1, 1, << <<"expiration", "0">> >>, TRUE)
X3 == Ev(6, "P3", 1, 1, << <<"expiration", "0">> >>, TRUE)
\* two expiration tags, the later one first; one that does not parse
X2 == Ev(8, "P1", 1, 1, << <<"expiration", "1">>, <<"expiration", "0">> >>, TRUE)
XN == Ev(9, "P1", 1, 1, << <<"expiration", "soon">> >>, TRUE)
BX == Ev(7, "P3", 1, 1, << <<"expiration", "0">> >>, FALSE)
\* addressable events of (P1, 30000)
A1 == Ev(11, "P1", 30000, 1, << <<"d", "a">> >>, TRUE)
A2 == Ev(12, "P1", 30000, 2, << <<"d", "a">> >>, TRUE)
A0 == Ev(13, "P1", 30000, 1, <<>>, TRUE)
AE == Ev(14, "P1", 30000, 2, << <<"d">> >>, TRUE)
\* NIP-09 deletions
D1 == Ev(21, "P1", 5, 2, << <<"e", 1>>, <<"e", 2>> >>, TRUE)
D2 == Ev(22, "P2", 5, 2, << <<"e", 1>> >>, TRUE)
\* NIP-62 request to vanish
V1 == Ev(31, "P1", 62, 3, <<>>, TRUE)
\* NIP-42 auth events; "c1" is the challenge of connection 1, "c2" of 2
AU1 == Ev(41, "PA", 22242, 1, << <<"challenge", "c1">> >>, TRUE)
AU2 == Ev(42, "P1", 22242, 1, << <<"challenge", "c2">> >>, TRUE)
AUK == Ev(43, "PA", 1, 1, << <<"challenge", "x">> >>, TRUE)
AUS == Ev(44, "PA", 22242, 1, << <<"challenge", "c1">> >>, FALSE)
AUN == Ev(45, "PA", 22242, 1, <<>>, TRUE)

(***************************************************************************)
(* Filters.  A filter object of a REQ: a dimension that is absent (or an   *)
(* empty list) is the empty set, or <<>> for since, until and limit.  A    *)
(* pubkey is written as the sequence of its PkLen characters, so that an   *)
(* author of a filter can be a proper prefix of it.                        *)
(***************************************************************************)
\* the length of a full pubkey (64 hex characters in main.rs:952)
PkLen == 2
Hex(pk) ==
    CASE pk = "PA" -> <<"P", "A">>
      [] pk = "P1" -> <<"P", "1">>
      [] pk = "P2" -> <<"P", "2">>
      [] pk = "P3" -> <<"P", "3">>
      [] OTHER -> <<>>

Filter(ids, authors, kinds, since, until, limit) ==
    [ids |-> ids, authors |-> authors, kinds |-> kinds, since |-> since,
     until |-> until, limit |-> limit]

\* {}
FAll == Filter({}, {}, {}, <<>>, <<>>, <<>>)
\* {"kinds":[1]}
FKind1 == Filter({}, {}, {1}, <<>>, <<>>, <<>>)
\* {"authors":[P1]}, {"authors":[P2]}, {"authors":[P3]}
FByP1 == Filter({}, {Hex("P1")}, {}, <<>>, <<>>, <<>>)
FByP2 == Filter({}, {Hex("P2")}, {}, <<>>, <<>>, <<>>)
FByP3 == Filter({}, {Hex("P3")}, {}, <<>>, <<>>, <<>>)
\* {"kinds":[1,30000],"since":1,"until":2,"limit":1}
FLim1 == Filter({}, {}, {1, 30000}, <<1>>, <<2>>, <<1>>)
\* {"ids":[1],"limit":1}
FId1Lim1 == Filter({1}, {}, {}, <<>>, <<>>, <<1>>)
\* {"authors":["P"]}: a prefix, which the strict decoder refuses
FPfx == Filter({}, {<<"P">>}, {}, <<>>, <<>>, <<>>)
\* {"ids":[2],"authors":["P"],"kinds":[1]}
FPfxId2 == Filter({2}, {<<"P">>}, {1}, <<>>, <<>>, <<>>)

(***************************************************************************)
(* Inbound frames: ["EVENT", ev], ["AUTH", ev], ["REQ", sub, filter, ...]  *)
(* (nested: the filters come in one array), ["CLOSE", sub], the NIP-77     *)
(* frames ["NEG-OPEN", sub, filter, id_len, msg], ["NEG-MSG", sub, msg],   *)
(* ["NEG-CLOSE", sub] and the JSON-RPC object {method, params, id}.  param *)
(* is "" when params[0] is missing, and the hex message of a NEG frame.    *)
(* shape: what the text is (a JSON array, a JSON object, a JSON scalar,    *)
(* text that is no JSON), or "wsclose" for the Close message of the        *)
(* websocket.  wf: the array has the elements the decoder of its verb      *)
(* takes; the object has id and method.  on: the connections whose client  *)
(* sends the frame.                                                        *)
(***************************************************************************)
SubIds == {"s", "t"}

Frame(verb, ev, method, param) ==
    [verb |-> verb, ev |-> ev, method |-> method, param |-> param,
     sub |-> "", filters |-> <<>>, nested |-> FALSE, on |-> Conns,
     shape |-> IF verb = "RPC" THEN "object" ELSE "array", wf |-> TRUE]

NoFrame == Frame("", NoEv, "", "")
EVT(e) == Frame("EVENT", e, "", "")
AUTHF(e) == Frame("AUTH", e, "", "")
RPC(m, p) == Frame("RPC", NoEv, m, p)
REQF(sub, filters, nested) ==
    [Frame("REQ", NoEv, "", "") EXCEPT
        !.sub = sub, !.filters = filters, !.nested = nested]
CLOSEF(sub) == [Frame("CLOSE", NoEv, "", "") EXCEPT !.sub = sub]
\* NIP-77: msg is msg_hex
NEGOPEN(sub, msg) ==
    [Frame("NEG-OPEN", NoEv, "", msg) EXCEPT !.sub = sub, !.filters = <<FAll>>]
NEGMSG(sub, msg) == [Frame("NEG-MSG", NoEv, "", msg) EXCEPT !.sub = sub]
NEGCLOSE(sub) == [Frame("NEG-CLOSE", NoEv, "", "") EXCEPT !.sub = sub]
\* hello (no JSON), 5 (a scalar), [] and ["PING"] (no known verb)
TEXTF == [NoFrame EXCEPT !.shape = "text"]
SCALARF == [NoFrame EXCEPT !.shape = "scalar"]
EMPTYF == NoFrame
UNKNOWNF == Frame("PING", NoEv, "", "")
\* the frame f with an element missing or of the wrong type: ["EVENT", 5],
\* ["CLOSE"], ["NEG-MSG", "s"], {"method": "ban_user"} without id
BadArgs(f) == [f EXCEPT !.wf = FALSE]
\* Message::Close
WSCLOSE == [NoFrame EXCEPT !.shape = "wsclose"]
\* not a frame: the transport of the connection fails to write during the run
SENDFAULT == [NoFrame EXCEPT !.shape = "fault"]
\* the frame f, sent by the client of connection c only
On(c, f) == [f EXCEPT !.on = {c}]

\* The frames the clients of one run may send (on either connection).
ScAddr == {EVT(A1), EVT(A2)}
ScAddrNoD == {On(1, EVT(A0)), On(1, EVT(AE)), On(1, EVT(A1))}
ScDel == {On(1, EVT(N1)), On(2, EVT(N2)), On(1, EVT(D1))}
ScVanish == {On(1, EVT(N1)), On(1, EVT(V1)), On(2, EVT(N2))}
ScValid == {EVT(BAD), EVT(X1), EVT(X3), EVT(BX), EVT(N3)}
ScAdmin == {On(1, AUTHF(AU1)), On(1, RPC("ban_user", "P1")),
            On(1, RPC("allow_user", "P3")), On(2, EVT(N1)), On(2, EVT(N3))}
ScAuth == {AUTHF(AU1), AUTHF(AU2), AUTHF(AUK), AUTHF(AUS), AUTHF(AUN),
           RPC("list_allowed_users", ""), RPC("ban_user", ""), RPC("stats", "")}
ScRpc == {AUTHF(AU1), AUTHF(AU2), RPC("ban_user", "P3"), RPC("ban_user", "P2"),
          RPC("allow_user", "P3"), RPC("list_allowed_users", "")}
ScSub == {On(1, EVT(N1)), On(2, REQF("s", <<FByP3, FByP2>>, FALSE)),
          On(2, REQF("t", <<FKind1, FAll>>, TRUE)), On(2, CLOSEF("t"))}
ScPrefix == {On(1, EVT(N1)), On(2, REQF("s", <<FByP1>>, FALSE)),
             On(2, REQF("s", <<FPfxId2>>, FALSE)),
             On(2, REQF("s", <<FPfx>>, TRUE))}
ScLimit == {On(1, EVT(N1)), On(1, EVT(A2)), On(2, REQF("s", <<FLim1>>, FALSE)),
            On(2, REQF("s", <<FAll>>, FALSE))}
ScExp == {On(1, EVT(X2)), On(1, EVT(XN)), On(2, REQF("s", <<FAll>>, FALSE))}
ScMalformed == {On(1, TEXTF), On(1, SCALARF), On(1, EMPTYF), On(1, UNKNOWNF),
                On(1, BadArgs(RPC("ban_user", "P1"))), On(1, BadArgs(EVT(N1))),
                On(1, BadArgs(CLOSEF("s"))), On(1, BadArgs(NEGMSG("s", ""))),
                On(1, BadArgs(NEGOPEN("s", ""))), On(1, BadArgs(NEGCLOSE(""))),
                On(1, BadArgs(REQF("s", <<>>, FALSE))),
                On(1, REQF("s", <<FKind1>>, FALSE)), On(1, AUTHF(AU1)),
                On(1, NEGOPEN("s", "61"))}
ScNeg == {On(1, EVT(N1)), On(2, NEGOPEN("s", "61")), On(2, NEGOPEN("t", "zz")),
          On(2, NEGMSG("s", "62")), On(2, NEGMSG("s", "ff")),
          On(2, NEGMSG("t", "62")), On(2, NEGCLOSE("s")),
          On(2, REQF("s", <<FKind1>>, FALSE)), On(2, CLOSEF("s"))}
ScFault == {On(1, EVT(N1)), On(2, REQF("s", <<FKind1>>, FALSE)),
            On(2, SENDFAULT), On(2, WSCLOSE)}
ScIds == {On(1, EVT(N1)), On(1, EVT(A2)),
          On(2, REQF("s", <<FId1Lim1>>, FALSE))}
Scenarios == {ScAddr, ScAddrNoD, ScDel, ScVanish, ScValid, ScAdmin, ScAuth,
              ScRpc, ScSub, ScPrefix, ScLimit, ScExp, ScMalformed, ScNeg,
              ScFault, ScIds}

\* The frames of the runs in which the handlers interleave.
CcSame == {EVT(A1)}
CcAddr == {On(1, EVT(A1)), On(2, EVT(A2))}
CcVanish == {On(1, EVT(N1)), On(2, EVT(V1))}
CcDel == {On(1, EVT(N1)), On(2, EVT(D1))}
CcAdmin == {On(1, AUTHF(AU1)), On(1, RPC("ban_user", "P1")), On(2, EVT(N1))}
CcSub == {On(1, EVT(N1)), On(2, REQF("s", <<FKind1>>, FALSE)),
          On(2, REQF("s", <<FPfx>>, FALSE)), On(2, REQF("s", <<FPfx>>, TRUE)),
          On(2, CLOSEF("s"))}
CcPubSub == {On(1, EVT(N1)), On(2, REQF("s", <<FByP3, FKind1>>, FALSE))}
CcNeg == {On(1, EVT(N1)), On(2, NEGOPEN("s", "61")), On(2, NEGMSG("s", "62")),
          On(2, NEGCLOSE("s"))}
CcFault == {On(1, EVT(N1)), On(2, SENDFAULT), On(2, WSCLOSE)}
ScenariosConc == {CcSame, CcAddr, CcVanish, CcDel, CcAdmin, CcSub, CcPubSub,
                  CcNeg, CcFault}

(***************************************************************************)
(* Text.  A reason is the sequence of its characters, so that "starts      *)
(* with" is computed and not assumed.                                      *)
(***************************************************************************)
StartsWith(s, p) == Len(s) >= Len(p) /\ SubSeq(s, 1, Len(p)) = p

PfxError == <<"e","r","r","o","r",":">>
PfxBlocked == <<"b","l","o","c","k","e","d",":">>
\* the Display text of the verification error of the nostr crate
ErrText == <<"b","a","d"," ","s","i","g">>
RsnInvalidSig ==
    <<"I","n","v","a","l","i","d"," ","s","i","g","n","a","t","u","r","e",":"," ">>
        \o ErrText
RsnExpired == PfxError \o <<" ","e","v","e","n","t"," ","e","x","p","i","r","e","d">>
RsnBlocked == PfxBlocked \o
    <<" ","u","s","e","r"," ","n","o","t"," ","w","h","i","t","e","l","i","s","t","e","d">>
RsnInternal == PfxError \o
    <<" ","i","n","t","e","r","n","a","l"," ","e","r","r","o","r">>
RsnAuthKind == PfxError \o
    <<" ","i","n","v","a","l","i","d"," ","k","i","n","d"," ","f","o","r"," ","a","u","t","h">>
RsnAuthChallenge == PfxError \o
    <<" ","i","n","v","a","l","i","d"," ","c","h","a","l","l","e","n","g","e">>
RsnAuthSig == PfxError \o
    <<" ","i","n","v","a","l","i","d"," ","s","i","g","n","a","t","u","r","e",":"," ">>
        \o ErrText
RsnAuthSuccess == <<"a","u","t","h","-","s","u","c","c","e","s","s">>
RsnEmpty == <<>>

(***************************************************************************)
(* Outbound frames.                                                        *)
(***************************************************************************)
\* the fields every outbound frame of the model has
OutFrame(typ) ==
    [typ |-> typ, id |-> 0, accepted |-> FALSE, reason |-> <<>>, code |-> 0,
     result |-> <<>>, sub |-> "", ev |-> NoEv, message |-> ""]
\* RelayMessage::ok(event.id, accepted, reason)
OkFrame(id, accepted, reason) ==
    [OutFrame("OK") EXCEPT !.id = id, !.accepted = accepted, !.reason = reason]
\* {"jsonrpc":"2.0","id":id,"error":{"code":code,"message":msg}}
RpcError(code, msg) ==
    [OutFrame("RPC_ERROR") EXCEPT !.code = code, !.message = msg]
\* {"jsonrpc":"2.0","id":id,"result":res}
RpcResult(res) ==
    [OutFrame("RPC_RESULT") EXCEPT !.accepted = TRUE, !.result = res]
\* RelayMessage::event(sub_id, event)
EventFrame(sub, ev) == [OutFrame("EVENT") EXCEPT !.sub = sub, !.ev = ev]
\* RelayMessage::eose(sub_id)
Eose(sub) == [OutFrame("EOSE") EXCEPT !.sub = sub]
\* RelayMessage::closed(subscription_id, "Subscription closed")
Closed(sub) ==
    [OutFrame("CLOSED") EXCEPT !.sub = sub, !.message = "Subscription closed"]
\* RelayMessage::notice(...)
Notice(msg) == [OutFrame("NOTICE") EXCEPT !.message = msg]
\* ["NEG-MSG", sub_id, response.to_hex()]: the response of the negentropy
\* library is a function of the sealed items and of the query
NegMsg(sub, items, query) ==
    [OutFrame("NEG-MSG") EXCEPT !.sub = sub, !.result = items, !.message = query]

MsgUnauthorized == "Unauthorized: Admin access required"
MsgDbError == "DB Error"
MsgMissingParam == "Missing pubkey param"
MsgNotFound == "Method not found"

(***************************************************************************)
(* Pure functions of the ingestion pipeline.                               *)
(***************************************************************************)
\* event.verify() with the check left out
VerifyNoCheck(ev) == TRUE
\* event.verify(): the id is the hash of the content and the signature verifies
Verify(ev) == ev.sig_ok

\* t[1].parse::<i64>(): <<n>> for a decimal string, <<>> for a parse error
ParseI64(s) ==
    CASE s = "0" -> <<0>>
      [] s = "1" -> <<1>>
      [] s = "2" -> <<2>>
      [] s = "3" -> <<3>>
      [] s = "4" -> <<4>>
      [] OTHER -> <<>>

\* The NIP-40 loop over the tags: acc is expires_at so far; stops at the
\* first expiration tag that parses and lies before the clock t.
RECURSIVE ExpirationScan(_, _, _)
ExpirationScan(tags, t, acc) ==
    IF tags = <<>> THEN [expired |-> FALSE, expires_at |-> acc]
    ELSE LET tag == Head(tags) IN
         IF Len(tag) >= 2 /\ tag[1] = "expiration" /\ ParseI64(tag[2]) # <<>>
         THEN IF ParseI64(tag[2])[1] < t
              THEN [expired |-> TRUE, expires_at |-> acc]
              ELSE ExpirationScan(Tail(tags), t, ParseI64(tag[2]))
         ELSE ExpirationScan(Tail(tags), t, acc)

\* the expiration check that never rejects
ExpiredNever(ev, t) == FALSE
\* TRUE when handle_event answers "error: event expired" at clock t
Expired(ev, t) == ExpirationScan(ev.tags, t, <<>>).expired

\* expires_at bound to the INSERT when the event is not rejected
ExpiresAt(ev, t) == ExpirationScan(ev.tags, t, <<>>).expires_at

\* kind_num >= 30000 && kind_num < 40000
IsAddressable(ev) == ev.kind >= 30000 /\ ev.kind < 40000

\* d_tag: the second element of the first tag named d, "" when there is none
RECURSIVE DTagOf(_)
DTagOf(tags) ==
    IF tags = <<>> THEN ""
    ELSE IF Len(Head(tags)) >= 1 /\ Head(tags)[1] = "d"
         THEN (IF Len(Head(tags)) >= 2 THEN Head(tags)[2] ELSE "")
         ELSE DTagOf(Tail(tags))

\* EXISTS (SELECT 1 FROM jsonb_array_elements(tags) AS t WHERE t->>0 = 'd'
\*         AND (t->>1 = $3 OR ($3 = '' AND (t->>1 IS NULL OR t->>1 = ''))))
HasDTag(tags, d) ==
    \E i \in 1..Len(tags) :
        /\ Len(tags[i]) >= 1
        /\ tags[i][1] = "d"
        /\ \/ (Len(tags[i]) >= 2 /\ tags[i][2] = d)
           \/ (d = "" /\ (Len(tags[i]) < 2 \/ tags[i][2] = ""))

\* DELETE FROM events WHERE pubkey = $1 AND kind = $2 AND EXISTS (...)
ReplaceDelete(st, ev) ==
    {r \in st : ~(/\ r.ev.pubkey = ev.pubkey
                  /\ r.ev.kind = ev.kind
                  /\ HasDTag(r.ev.tags, DTagOf(ev.tags)))}

\* A row of the events table.  rid stands for the nanoid primary key: the
\* ordinal of the row among the rows of its eventId.
Row(st, ev, exp, t) ==
    [rid |-> Cardinality({r \in st : r.ev.id = ev.id}), ev |-> ev,
     receivedAt |-> t, expiresAt |-> exp]

\* the INSERT without its ON CONFLICT clause
InsertAlways(st, ev, exp, t) == st \cup {Row(st, ev, exp, t)}
\* INSERT INTO events ... ON CONFLICT ("eventId") DO NOTHING
InsertEvent(st, ev, exp, t) ==
    IF \E r \in st : r.ev.id = ev.id THEN st ELSE st \cup {Row(st, ev, exp, t)}

\* the NIP-09 delete without the owner condition
DeleteAnyOwner(st, target, pk) == {r \in st : r.ev.id # target}
\* DELETE FROM events WHERE "eventId" = $1 AND pubkey = $2
DeleteOwned(st, target, pk) ==
    {r \in st : ~(r.ev.id = target /\ r.ev.pubkey = pk)}

\* a vanish that keeps the kind-62 event itself
VanishKeepRequest(st, pk) == {r \in st : r.ev.pubkey # pk \/ r.ev.kind = 62}
\* DELETE FROM events WHERE pubkey = $1
VanishDelete(st, pk) == {r \in st : r.ev.pubkey # pk}

(***************************************************************************)
(* Pure functions of the subscription path.                                *)
(***************************************************************************)
Min(a, b) == IF a < b THEN a ELSE b

\* filter.match_event(&event): every dimension the filter specifies
MatchEvent(f, e) ==
    /\ f.ids = {} \/ e.id \in f.ids
    /\ f.authors = {} \/ Hex(e.pubkey) \in f.authors
    /\ f.kinds = {} \/ e.kind \in f.kinds
    /\ f.since = <<>> \/ e.created_at >= f.since[1]
    /\ f.until = <<>> \/ e.created_at <= f.until[1]

\* for filter in &filters { if filter.match_event(&event) { matched = true } }
MatchAny(filters, e) == \E i \in 1..Len(filters) : MatchEvent(filters[i], e)

\* the strict decoder (ClientMessage::from_json) takes full pubkeys only
StrictOk(filters) ==
    \A i \in 1..Len(filters) : \A a \in filters[i].authors : Len(a) = PkLen

\* ("expiresAt" IS NULL OR "expiresAt" > NOW())
Unexpired(r, t) == r.expiresAt = <<>> \/ r.expiresAt[1] > t

\* the WHERE clause handle_req builds from the first filter: kind IN,
\* pubkey IN, createdAt >= since, createdAt <= until
ReqWhere(filters, r, t) ==
    /\ Unexpired(r, t)
    /\ Len(filters) > 0 =>
          LET f == filters[1] IN
          /\ f.kinds = {} \/ r.ev.kind \in f.kinds
          /\ f.authors = {} \/ Hex(r.ev.pubkey) \in f.authors
          /\ f.since = <<>> \/ r.ev.created_at >= f.since[1]
          /\ f.until = <<>> \/ r.ev.created_at <= f.until[1]

\* limit.min(500), 100 when the first filter has no limit
LimitCap == 500
DefaultLimit == 100
ReqLimit(filters) ==
    IF Len(filters) > 0 /\ filters[1].limit # <<>>
    THEN Min(filters[1].limit[1], LimitCap)
    ELSE DefaultLimit

\* pubkey = 'author' for a full pubkey, pubkey LIKE 'author%' for a shorter one
AuthorCond(a, pk) == IF Len(a) = PkLen THEN Hex(pk) = a ELSE StartsWith(Hex(pk), a)

\* the WHERE clause handle_prefix_search_req builds from the filter object
PrefixWhere(f, r, t) ==
    /\ Unexpired(r, t)
    /\ f.kinds = {} \/ r.ev.kind \in f.kinds
    /\ f.authors = {} \/ \E a \in f.authors : AuthorCond(a, r.ev.pubkey)
    /\ f.since = <<>> \/ r.ev.created_at >= f.since[1]
    /\ f.until = <<>> \/ r.ev.created_at <= f.until[1]

\* filter.get("limit").and_then(|v| v.as_i64()).unwrap_or(100)
PrefixLimit(f) == IF f.limit # <<>> THEN f.limit[1] ELSE DefaultLimit

\* ORDER BY "createdAt" DESC LIMIT lim: the sequences of events the query may
\* return (rows of equal createdAt come in any order)
QueryResults(rows, lim) ==
    LET n == Min(lim, Cardinality(rows)) IN
    {[i \in 1..n |-> b[i].ev] : b \in
        {q \in [1..n -> rows] :
            /\ \A i \in 1..n : \A j \in 1..n : i < j =>
                  q[i] # q[j] /\ q[i].ev.created_at >= q[j].ev.created_at
            /\ \A r \in rows : (\A i \in 1..n : q[i] # r) =>
                  \A i \in 1..n : q[i].ev.created_at >= r.ev.created_at}}

(***************************************************************************)
(* The users table and the whitelist cache.                                *)
(***************************************************************************)
NoRow == [row |-> FALSE, isAdmin |-> FALSE, status |-> "NONE"]
UserRow(admin, status) == [row |-> TRUE, isAdmin |-> admin, status |-> status]

\* a match that yields (false, false) for every row
WhitelistNone(u) == <<FALSE, FALSE>>
\* the match on the fetched row: (is_admin, is_active)
WhitelistOf(u) ==
    IF u.row THEN <<u.isAdmin, u.status = "ACTIVE">> ELSE <<FALSE, FALSE>>

\* format!("{}:{}", ...): the two parts of the cached value
CacheVal(pair) ==
    <<IF pair[1] THEN "1" ELSE "0", IF pair[2] THEN "1" ELSE "0">>
\* parts[0] == "1", parts[1] == "1"
CacheParse(parts) == <<parts[1] = "1", parts[2] = "1">>
NoEntry == <<>>

(***************************************************************************)
(* State.                                                                  *)
(***************************************************************************)
VARIABLES
    mode,        \* "seq": handlers run one at a time; "conc": they interleave
    scen,        \* the frames the clients send in this run
    now,         \* the wall clock
    store,       \* the events table: a set of rows
    users,       \* the users table: pubkey -> row
    cache,       \* the redis whitelist entries: pubkey -> parts, or NoEntry
    hub,         \* the events published on the broadcast channel, oldest first
    auth_pubkey, \* per connection: <<>> or <<pubkey>>
    pc,          \* per connection: the position of its receive loop
    cur,         \* per connection: the frame being handled
    lv,          \* per connection: the locals of the running handler
    out,         \* per connection: the frames the running handler has emitted
    pre,         \* per connection: store, users, hub, auth, subscriptions
                 \* when the frame arrived
    served,      \* frames received so far in a run of interleaving handlers
    subscriptions, \* per connection: sub id -> filters, <<>> when not registered
    rxpos,       \* per connection: how many of the last events of the hub its
                 \* broadcast receiver has still to receive
    negentropy_sessions, \* per connection: sub id -> <<session>>, <<>> when none
    send_task,   \* per connection: the task that writes to the socket runs
    query_failed \* history, per connection: the registered sub ids whose
                 \* REQ ended with a failed historical query

vars == <<mode, scen, now, store, users, cache, hub, auth_pubkey, pc, cur, lv,
          out, pre, served, subscriptions, rxpos, negentropy_sessions,
          send_task, query_failed>>

\* nanoid!() challenge of a connection
Challenge(c) == IF c = 1 THEN "c1" ELSE "c2"

\* row: the result of the SELECT of check_whitelist_cached (res is "none"
\* before it has run, "err" when it fails, "ok" with the row in val);
\* cached: set_ex was issued
Fetched(res, val) == [res |-> res, val |-> val]
NotFetched == Fetched("none", NoRow)
NoLocals ==
    [expires_at |-> <<>>, is_admin |-> FALSE, is_active |-> FALSE,
     insert_ok |-> FALSE, i |-> 1, rows |-> <<>>, row |-> NotFetched,
     cached |-> FALSE]
NoPre ==
    [store |-> {}, users |-> <<>>, hub |-> <<>>, auth |-> <<>>, subs |-> <<>>,
     neg |-> <<>>]
\* HashMap::new()
NoSubs == [s \in SubIds |-> <<>>]

InitUsers ==
    [p \in Pubkeys |->
        CASE p = "PA" -> UserRow(TRUE, "ACTIVE")
          [] p = "P1" -> UserRow(FALSE, "ACTIVE")
          [] p = "P2" -> UserRow(FALSE, "ACTIVE")
          [] OTHER -> NoRow]

InitCommon ==
    /\ served = 0
    /\ now = 0
    /\ store = {}
    /\ users = InitUsers
    /\ cache = [p \in Pubkeys |-> NoEntry]
    /\ hub = <<>>
    /\ auth_pubkey = [c \in Conns |-> <<>>]
    /\ pc = [c \in Conns |-> "idle"]
    /\ cur = [c \in Conns |-> NoFrame]
    /\ lv = [c \in Conns |-> NoLocals]
    /\ out = [c \in Conns |-> <<>>]
    /\ pre = [c \in Conns |-> NoPre]
    /\ subscriptions = [c \in Conns |-> NoSubs]
    /\ rxpos = [c \in Conns |-> 0]
    /\ negentropy_sessions = [c \in Conns |-> NoSubs]
    /\ send_task = [c \in Conns |-> TRUE]
    /\ query_failed = [c \in Conns |-> {}]

Init == mode = "seq" /\ scen \in Scenarios /\ InitCommon
InitConc == mode = "conc" /\ scen \in ScenariosConc /\ InitCommon

\* The scheduler: in mode "seq" a connection runs only while the other is idle.
Sched(c) == mode = "conc" \/ \A d \in Conns \ {c} : pc[d] = "idle"
AllIdle == \A c \in Conns : pc[c] = "idle"

Emit(c, f) == out' = [out EXCEPT ![c] = Append(@, f)]
Goto(c, l) == pc' = [pc EXCEPT ![c] = l]

(***************************************************************************)
(* handle_socket: one inbound text frame is read and dispatched.           *)
(***************************************************************************)
\* what the properties compare the outcome of a handler with
Snapshot(c) ==
    [store |-> store, users |-> users, hub |-> hub, auth |-> auth_pubkey[c],
     subs |-> subscriptions[c], neg |-> negentropy_sessions[c]]

\* the handler of a frame: the JSON-RPC object, ClientMessage::from_json, the
\* retry with the nested filters unwrapped, the prefix search for a REQ whose
\* third element is an object, and the NOTICE for what is left
\* (a frame that is no JSON, a scalar, an empty array, an object without id
\* or method, or a NEG frame that is too short takes no branch: the handler
\* has returned, "done", without a frame)
Dispatch(f) ==
    IF f.shape \in {"text", "scalar"} THEN "done"
    ELSE IF f.shape = "object" THEN (IF f.wf THEN "rpc_admin" ELSE "done")
    ELSE IF f.verb = "" THEN "done"
    ELSE IF f.verb = "NEG-OPEN" THEN (IF f.wf THEN "neg_open" ELSE "done")
    ELSE IF f.verb = "NEG-MSG" THEN (IF f.wf THEN "neg_msg" ELSE "done")
    ELSE IF f.verb = "NEG-CLOSE" THEN (IF f.wf THEN "neg_close" ELSE "done")
    ELSE IF ~f.wf THEN "notice"
    ELSE CASE f.verb = "EVENT" -> "verify"
           [] f.verb = "AUTH" -> "auth"
           [] f.verb = "CLOSE" -> "close"
           [] f.verb = "REQ" /\ StrictOk(f.filters) -> "req"
           [] f.verb = "REQ" /\ ~StrictOk(f.filters) /\ ~f.nested -> "preq"
           [] OTHER -> "notice"

\* the select! of the receive loop takes a branch: the handler of the last
\* frame has returned
SelectAnytime(c) == pc[c] \in {"idle", "req_send", "req_eose"}
SelectReady(c) == pc[c] = "idle"

Recv(c) ==
    \E f \in scen :
        /\ c \in f.on
        /\ f.shape \notin {"wsclose", "fault"}
        /\ SelectReady(c)
        /\ Sched(c)
        /\ mode = "seq" \/ served < MaxFrames
        /\ served' = IF mode = "seq" THEN 0 ELSE served + 1
        /\ cur' = [cur EXCEPT ![c] = f]
        /\ out' = [out EXCEPT ![c] = <<>>]
        /\ pre' = [pre EXCEPT ![c] = Snapshot(c)]
        /\ Goto(c, Dispatch(f))
        /\ UNCHANGED <<subscriptions, rxpos>>
        /\ UNCHANGED <<query_failed, negentropy_sessions, send_task, mode,
                   scen, now, store, users, cache, hub, auth_pubkey, lv>>

\* the handler has returned; the loop is back at select!
Return(c) ==
    /\ pc[c] = "done"
    /\ Sched(c)
    /\ Goto(c, "idle")
    /\ cur' = [cur EXCEPT ![c] = NoFrame]
    /\ lv' = [lv EXCEPT ![c] = NoLocals]
    /\ out' = [out EXCEPT ![c] = <<>>]
    /\ pre' = [pre EXCEPT ![c] = NoPre]
    /\ UNCHANGED <<subscriptions, rxpos>>
    /\ UNCHANGED <<query_failed, negentropy_sessions, send_task, mode,
                   served, scen, now, store, users, cache, hub, auth_pubkey>>

\* Some(Ok(Message::Close(_))) => break, and what follows the loop: the
\* locals of handle_socket are dropped and send_task is aborted
Exit(c) ==
    \E f \in scen :
        /\ c \in f.on
        /\ f.shape = "wsclose"
        /\ SelectReady(c)
        /\ Sched(c)
        /\ Goto(c, "closed")
        /\ subscriptions' = [subscriptions EXCEPT ![c] = NoSubs]
        /\ negentropy_sessions' = [negentropy_sessions EXCEPT ![c] = NoSubs]
        /\ auth_pubkey' = [auth_pubkey EXCEPT ![c] = <<>>]
        /\ rxpos' = [rxpos EXCEPT ![c] = 0]
        /\ send_task' = [send_task EXCEPT ![c] = FALSE]
        /\ query_failed' = [query_failed EXCEPT ![c] = {}]
        /\ UNCHANGED <<mode, served, scen, now, store, users, cache, hub, cur,
                       lv, out, pre>>

(***************************************************************************)
(* handle_event.                                                           *)
(***************************************************************************)
\* 1. Verify signature, then NIP-40: Check Expiration (no await point lies
\* between the two checks)
HE_Validate(c) ==
    /\ pc[c] = "verify"
    /\ Sched(c)
    /\ IF ~Verify(cur[c].ev)
       THEN /\ Emit(c, OkFrame(cur[c].ev.id, FALSE, RsnInvalidSig))
            /\ Goto(c, "done")
            /\ UNCHANGED lv
       ELSE IF Expired(cur[c].ev, now)
       THEN /\ Emit(c, OkFrame(cur[c].ev.id, FALSE, RsnExpired))
            /\ Goto(c, "done")
            /\ UNCHANGED lv
       ELSE /\ lv' = [lv EXCEPT ![c].expires_at = ExpiresAt(cur[c].ev, now)]
            /\ Goto(c, "wl_get")
            /\ UNCHANGED out
    /\ UNCHANGED <<subscriptions, rxpos>>
    /\ UNCHANGED <<query_failed, negentropy_sessions, send_task, mode,
                   served, scen, now, store, users, cache, hub, auth_pubkey, cur,
                   pre>>

\* check_whitelist_cached: Try Redis cache first (up: redis is configured
\* and answers)
WL_CacheGet(c) ==
    \E up \in BOOLEAN :
        /\ pc[c] = "wl_get"
        /\ Sched(c)
        /\ LET val == cache[cur[c].ev.pubkey] IN
           IF up /\ Len(val) = 2
           THEN /\ lv' = [lv EXCEPT ![c].is_admin = CacheParse(val)[1],
                                    ![c].is_active = CacheParse(val)[2]]
                /\ Goto(c, "wl_chk")
           ELSE /\ Goto(c, "wl_db")
                /\ UNCHANGED lv
        /\ UNCHANGED <<subscriptions, rxpos>>
        /\ UNCHANGED <<query_failed, negentropy_sessions, send_task, mode,
                   served, scen, now, store, users, cache, hub, auth_pubkey,
                       cur, out, pre>>

\* check_whitelist_cached: Cache miss - query DB (dbok: the SELECT succeeds)
WL_DbLoad(c) ==
    \E dbok \in BOOLEAN :
        /\ pc[c] = "wl_db"
        /\ Sched(c)
        /\ LET row == IF dbok THEN Fetched("ok", users[cur[c].ev.pubkey])
                      ELSE Fetched("err", NoRow)
               pair == IF dbok THEN WhitelistOf(row.val) ELSE <<FALSE, FALSE>> IN
           lv' = [lv EXCEPT ![c].is_admin = pair[1], ![c].is_active = pair[2],
                            ![c].row = row]
        /\ Goto(c, "wl_set")
        /\ UNCHANGED <<subscriptions, rxpos>>
        /\ UNCHANGED <<query_failed, negentropy_sessions, send_task, mode,
                   served, scen, now, store, users, cache, hub, auth_pubkey,
                       cur, out, pre>>

\* check_whitelist_cached: Store in Redis cache
WL_CacheSet(c) ==
    \E up \in BOOLEAN :
        /\ pc[c] = "wl_set"
        /\ Sched(c)
        /\ IF up
           THEN cache' = [cache EXCEPT ![cur[c].ev.pubkey] =
                              CacheVal(<<lv[c].is_admin, lv[c].is_active>>)]
           ELSE UNCHANGED cache
        /\ lv' = [lv EXCEPT ![c].cached = up]
        /\ Goto(c, "wl_chk")
        /\ UNCHANGED <<subscriptions, rxpos>>
        /\ UNCHANGED <<query_failed, negentropy_sessions, send_task, mode,
                   served, scen, now, store, users, hub, auth_pubkey, cur,
                       out, pre>>

\* 2. Check whitelist (check_whitelist_cached has returned: its locals are
\* gone)
HE_Whitelist(c) ==
    /\ pc[c] = "wl_chk"
    /\ Sched(c)
    /\ IF ~lv[c].is_admin /\ ~lv[c].is_active
       THEN Emit(c, OkFrame(cur[c].ev.id, FALSE, RsnBlocked)) /\ Goto(c, "done")
       ELSE /\ Goto(c, IF IsAddressable(cur[c].ev) THEN "replace" ELSE "insert")
            /\ UNCHANGED out
    /\ lv' = [lv EXCEPT ![c].row = NotFetched, ![c].cached = FALSE]
    /\ UNCHANGED <<subscriptions, rxpos>>
    /\ UNCHANGED <<query_failed, negentropy_sessions, send_task, mode,
                   served, scen, now, store, users, cache, hub, auth_pubkey, cur,
                   pre>>

\* 3. Handle addressable events: delete the rows of (pubkey, kind, d-tag)
HE_Replace(c) ==
    /\ pc[c] = "replace"
    /\ Sched(c)
    /\ store' = ReplaceDelete(store, cur[c].ev)
    /\ Goto(c, "insert")
    /\ UNCHANGED <<subscriptions, rxpos>>
    /\ UNCHANGED <<query_failed, negentropy_sessions, send_task, mode,
                   served, scen, now, users, cache, hub, auth_pubkey, cur, lv, out,
                   pre>>

\* 4. Save to DB (dbok: the INSERT succeeds)
HE_Insert(c) ==
    \E dbok \in BOOLEAN :
        /\ pc[c] = "insert"
        /\ Sched(c)
        /\ IF dbok
           THEN store' = InsertEvent(store, cur[c].ev, lv[c].expires_at, now)
           ELSE UNCHANGED store
        /\ lv' = [lv EXCEPT ![c].insert_ok = dbok]
        /\ Goto(c, "ack")
        /\ UNCHANGED <<subscriptions, rxpos>>
        /\ UNCHANGED <<query_failed, negentropy_sessions, send_task, mode,
                   served, scen, now, users, cache, hub, auth_pubkey, cur, out,
                       pre>>

\* where handle_event goes after the OK true
AfterAck(ev) ==
    IF ev.kind = 5 /\ Len(ev.tags) > 0 THEN "del5"
    ELSE IF ev.kind = 62 THEN "van_del"
    ELSE "bcast"

\* match insert_result: the OK frame
HE_Ack(c) ==
    /\ pc[c] = "ack"
    /\ Sched(c)
    /\ IF lv[c].insert_ok
       THEN /\ Emit(c, OkFrame(cur[c].ev.id, TRUE, RsnEmpty))
            /\ Goto(c, AfterAck(cur[c].ev))
       ELSE /\ Emit(c, OkFrame(cur[c].ev.id, FALSE, RsnInternal))
            /\ Goto(c, "done")
    /\ UNCHANGED <<subscriptions, rxpos>>
    /\ UNCHANGED <<query_failed, negentropy_sessions, send_task, mode,
                   served, scen, now, store, users, cache, hub, auth_pubkey, cur,
                   lv, pre>>

\* Handle NIP-09: one iteration of the loop over the tags
HE_Delete5(c) ==
    /\ pc[c] = "del5"
    /\ Sched(c)
    /\ LET tag == cur[c].ev.tags[lv[c].i] IN
       IF Len(tag) >= 2 /\ tag[1] = "e"
       THEN store' = DeleteOwned(store, tag[2], cur[c].ev.pubkey)
       ELSE UNCHANGED store
    /\ IF lv[c].i < Len(cur[c].ev.tags)
       THEN lv' = [lv EXCEPT ![c].i = @ + 1] /\ UNCHANGED pc
       ELSE Goto(c, "bcast") /\ UNCHANGED lv
    /\ UNCHANGED <<subscriptions, rxpos>>
    /\ UNCHANGED <<query_failed, negentropy_sessions, send_task, mode,
                   served, scen, now, users, cache, hub, auth_pubkey, cur, out, pre>>

\* Handle NIP-62: 1. Delete all events from this pubkey
HE_VanishDelete(c) ==
    /\ pc[c] = "van_del"
    /\ Sched(c)
    /\ store' = VanishDelete(store, cur[c].ev.pubkey)
    /\ Goto(c, "van_upd")
    /\ UNCHANGED <<subscriptions, rxpos>>
    /\ UNCHANGED <<query_failed, negentropy_sessions, send_task, mode,
                   served, scen, now, users, cache, hub, auth_pubkey, cur, lv, out,
                   pre>>

\* UPDATE users SET "whitelistStatus" = 'VANISHED' WHERE pubkey = $1
SetStatus(us, pk, status) ==
    IF us[pk].row THEN [us EXCEPT ![pk].status = status] ELSE us

\* Handle NIP-62: 2. Update user status to VANISHED
HE_VanishStatus(c) ==
    /\ pc[c] = "van_upd"
    /\ Sched(c)
    /\ users' = SetStatus(users, cur[c].ev.pubkey, "VANISHED")
    /\ Goto(c, "van_inv")
    /\ UNCHANGED <<subscriptions, rxpos>>
    /\ UNCHANGED <<query_failed, negentropy_sessions, send_task, mode,
                   served, scen, now, store, cache, hub, auth_pubkey, cur, lv, out,
                   pre>>

\* invalidate_whitelist_cache (up: redis is configured and answers)
HE_VanishInvalidate(c) ==
    \E up \in BOOLEAN :
        /\ pc[c] = "van_inv"
        /\ Sched(c)
        /\ IF up
           THEN cache' = [cache EXCEPT ![cur[c].ev.pubkey] = NoEntry]
           ELSE UNCHANGED cache
        /\ Goto(c, "bcast")
        /\ UNCHANGED <<subscriptions, rxpos>>
        /\ UNCHANGED <<query_failed, negentropy_sessions, send_task, mode,
                   served, scen, now, store, users, hub, auth_pubkey, cur, lv,
                       out, pre>>

\* state.tx.send(event) on a channel that keeps the last HubCap events; a
\* receiver that has more than HubCap events to receive loses the oldest
Publish(h, ev) ==
    IF Len(h) < HubCap THEN Append(h, ev) ELSE Append(Tail(h), ev)

\* Broadcast
HE_Broadcast(c) ==
    /\ pc[c] = "bcast"
    /\ Sched(c)
    /\ hub' = Publish(hub, cur[c].ev)
    /\ rxpos' = [d \in Conns |->
                    IF pc[d] = "closed" THEN 0 ELSE Min(rxpos[d] + 1, HubCap)]
    /\ Goto(c, "done")
    /\ UNCHANGED subscriptions
    /\ UNCHANGED <<query_failed, negentropy_sessions, send_task, mode,
                   served, scen, now, store, users, cache, auth_pubkey, cur, lv,
                   out, pre>>

(***************************************************************************)
(* handle_client_message, ClientMessage::Auth (NIP-42).  No await point    *)
(* lies between the checks, and each path sends one frame.                 *)
(***************************************************************************)
\* a challenge check that accepts any challenge tag
ChallengeAny(tags, ch) ==
    \E i \in 1..Len(tags) : Len(tags[i]) >= 2 /\ tags[i][1] = "challenge"
\* t.len() >= 2 && t[0] == "challenge" && t[1] == challenge, for some tag
ChallengeValid(tags, ch) ==
    \E i \in 1..Len(tags) :
        Len(tags[i]) >= 2 /\ tags[i][1] = "challenge" /\ tags[i][2] = ch

HandleAuth(c) ==
    /\ pc[c] = "auth"
    /\ Sched(c)
    /\ LET ev == cur[c].ev IN
       IF ev.kind # 22242
       THEN Emit(c, OkFrame(ev.id, FALSE, RsnAuthKind)) /\ UNCHANGED auth_pubkey
       ELSE IF ~ChallengeValid(ev.tags, Challenge(c))
       THEN Emit(c, OkFrame(ev.id, FALSE, RsnAuthChallenge)) /\ UNCHANGED auth_pubkey
       ELSE IF ~Verify(ev)
       THEN Emit(c, OkFrame(ev.id, FALSE, RsnAuthSig)) /\ UNCHANGED auth_pubkey
       ELSE /\ auth_pubkey' = [auth_pubkey EXCEPT ![c] = <<ev.pubkey>>]
            /\ Emit(c, OkFrame(ev.id, TRUE, RsnAuthSuccess))
    /\ Goto(c, "done")
    /\ UNCHANGED <<subscriptions, rxpos>>
    /\ UNCHANGED <<query_failed, negentropy_sessions, send_task, mode,
                   served, scen, now, store, users, cache, hub, cur, lv, pre>>

(***************************************************************************)
(* handle_nip86 (NIP-86 relay management).                                 *)
(***************************************************************************)
\* an admin check that is content with any authenticated pubkey
IsAdminAnyAuth(auth, us, dbok) == auth # <<>>
\* is_admin: the connection is authenticated, the SELECT succeeds (dbok) and
\* finds a row whose isAdmin is true
IsAdmin(auth, us, dbok) ==
    /\ auth # <<>>
    /\ dbok
    /\ us[auth[1]].row
    /\ us[auth[1]].isAdmin

\* Check Auth (Must be Admin); dbok: the SELECT succeeds
N86_CheckAdmin(c) ==
    \E dbok \in BOOLEAN :
        /\ pc[c] = "rpc_admin"
        /\ Sched(c)
        /\ IF IsAdmin(auth_pubkey[c], users, dbok)
           THEN Goto(c, "rpc_exec") /\ UNCHANGED out
           ELSE Emit(c, RpcError(-32000, MsgUnauthorized)) /\ Goto(c, "done")
        /\ UNCHANGED <<subscriptions, rxpos>>
        /\ UNCHANGED <<query_failed, negentropy_sessions, send_task, mode,
                   served, scen, now, store, users, cache, hub, auth_pubkey,
                       cur, lv, pre>>

\* INSERT INTO users ... VALUES (.., 'ACTIVE') ON CONFLICT (pubkey) DO UPDATE
\* SET "whitelistStatus" = 'ACTIVE'
AllowUser(us, pk) ==
    IF us[pk].row THEN [us EXCEPT ![pk].status = "ACTIVE"]
    ELSE [us EXCEPT ![pk] = UserRow(FALSE, "ACTIVE")]

\* SELECT pubkey FROM users WHERE "whitelistStatus" = 'ACTIVE'
ActiveUsers(us) == {p \in Pubkeys : us[p].row /\ us[p].status = "ACTIVE"}

\* the match on method and the response; dbok: the SELECT of
\* list_allowed_users succeeds
N86_Exec(c) ==
    \E dbok \in BOOLEAN :
        /\ pc[c] = "rpc_exec"
        /\ Sched(c)
        /\ LET m == cur[c].method
               p == cur[c].param
           IN CASE m = "list_allowed_users" ->
                     /\ Emit(c, IF dbok THEN RpcResult(ActiveUsers(users))
                                ELSE RpcError(-32601, MsgDbError))
                     /\ UNCHANGED users
                [] m = "allow_user" ->
                     IF p # ""
                     THEN users' = AllowUser(users, p) /\ Emit(c, RpcResult({"true"}))
                     ELSE UNCHANGED users /\ Emit(c, RpcError(-32601, MsgMissingParam))
                [] m = "ban_user" ->
                     IF p # ""
                     THEN /\ users' = SetStatus(users, p, "REVOKED")
                          /\ Emit(c, RpcResult({"true"}))
                     ELSE UNCHANGED users /\ Emit(c, RpcError(-32601, MsgMissingParam))
                [] OTHER -> UNCHANGED users /\ Emit(c, RpcError(-32601, MsgNotFound))
        /\ Goto(c, "done")
        /\ UNCHANGED <<subscriptions, rxpos>>
        /\ UNCHANGED <<query_failed, negentropy_sessions, send_task, mode,
                   served, scen, now, store, cache, hub, auth_pubkey, cur, lv,
                       pre>>

(***************************************************************************)
(* handle_req.                                                             *)
(***************************************************************************)
\* a REQ that registers nothing
SubscribeNone(subs, s, filters) == subs
\* subscriptions.insert(sub_id, filters)
Subscribe(subs, s, filters) == [subs EXCEPT ![s] = filters]

\* subscriptions.insert, then the historical query built from the first
\* filter (dbok: fetch_all succeeds)
HR_Query(c) ==
    \E dbok \in BOOLEAN :
        /\ pc[c] = "req"
        /\ Sched(c)
        /\ subscriptions' = [subscriptions EXCEPT
                                ![c] = Subscribe(@, cur[c].sub, cur[c].filters)]
        /\ IF dbok
           THEN \E rows \in QueryResults(
                        {r \in store : ReqWhere(cur[c].filters, r, now)},
                        ReqLimit(cur[c].filters)) :
                    /\ lv' = [lv EXCEPT ![c].rows = rows, ![c].i = 1]
                    /\ Goto(c, IF rows = <<>> THEN "req_eose" ELSE "req_send")
                    /\ UNCHANGED out
           ELSE /\ Emit(c, Notice("Failed to query events"))
                /\ Goto(c, "done")
                /\ UNCHANGED lv
        /\ query_failed' = [query_failed EXCEPT ![c] =
                                IF dbok THEN @ \ {cur[c].sub}
                                ELSE @ \cup {cur[c].sub}]
        /\ UNCHANGED <<negentropy_sessions, send_task, mode,
                   served, scen, now, store, users, cache, hub, auth_pubkey,
                       cur, pre, rxpos>>

\* for row in rows: the re-check against all filters and the EVENT frame
HR_SendRow(c) ==
    /\ pc[c] = "req_send"
    /\ Sched(c)
    /\ IF MatchAny(cur[c].filters, lv[c].rows[lv[c].i])
       THEN Emit(c, EventFrame(cur[c].sub, lv[c].rows[lv[c].i]))
       ELSE UNCHANGED out
    /\ IF lv[c].i < Len(lv[c].rows)
       THEN lv' = [lv EXCEPT ![c].i = @ + 1] /\ UNCHANGED pc
       ELSE Goto(c, "req_eose") /\ UNCHANGED lv
    /\ UNCHANGED subscriptions
    /\ UNCHANGED <<query_failed, negentropy_sessions, send_task, mode,
                   served, scen, now, store, users, cache, hub, auth_pubkey,
                   cur, pre, rxpos>>

\* RelayMessage::eose(sub_id) after the historical batch
HR_Eose(c) ==
    /\ pc[c] = "req_eose"
    /\ Sched(c)
    /\ Emit(c, Eose(cur[c].sub))
    /\ Goto(c, "done")
    /\ UNCHANGED <<subscriptions, lv>>
    /\ UNCHANGED <<query_failed, negentropy_sessions, send_task, mode,
                   served, scen, now, store, users, cache, hub, auth_pubkey,
                   cur, pre, rxpos>>

(***************************************************************************)
(* handle_prefix_search_req: the REQ the strict decoder refuses, handled    *)
(* from its first filter object.                                           *)
(***************************************************************************)
\* the query with prefix support (dbok: fetch_all succeeds)
HP_Query(c) ==
    \E dbok \in BOOLEAN :
        /\ pc[c] = "preq"
        /\ Sched(c)
        /\ IF dbok
           THEN \E rows \in QueryResults(
                        {r \in store : PrefixWhere(cur[c].filters[1], r, now)},
                        PrefixLimit(cur[c].filters[1])) :
                    /\ lv' = [lv EXCEPT ![c].rows = rows, ![c].i = 1]
                    /\ Goto(c, IF rows = <<>> THEN "preq_eose" ELSE "preq_send")
                    /\ UNCHANGED out
           ELSE /\ Emit(c, Notice("Query error"))
                /\ Goto(c, "done")
                /\ UNCHANGED lv
        /\ UNCHANGED subscriptions
        /\ UNCHANGED <<query_failed, negentropy_sessions, send_task, mode,
                   served, scen, now, store, users, cache, hub, auth_pubkey,
                       cur, pre, rxpos>>

\* for row in rows: the EVENT frame
HP_SendRow(c) ==
    /\ pc[c] = "preq_send"
    /\ Sched(c)
    /\ Emit(c, EventFrame(cur[c].sub, lv[c].rows[lv[c].i]))
    /\ IF lv[c].i < Len(lv[c].rows)
       THEN lv' = [lv EXCEPT ![c].i = @ + 1] /\ UNCHANGED pc
       ELSE Goto(c, "preq_eose") /\ UNCHANGED lv
    /\ UNCHANGED subscriptions
    /\ UNCHANGED <<query_failed, negentropy_sessions, send_task, mode,
                   served, scen, now, store, users, cache, hub, auth_pubkey,
                   cur, pre, rxpos>>

\* RelayMessage::eose(sub_id) after the batch of the prefix search
HP_Eose(c) ==
    /\ pc[c] = "preq_eose"
    /\ Sched(c)
    /\ Emit(c, Eose(cur[c].sub))
    /\ Goto(c, "done")
    /\ UNCHANGED <<subscriptions, lv>>
    /\ UNCHANGED <<query_failed, negentropy_sessions, send_task, mode,
                   served, scen, now, store, users, cache, hub, auth_pubkey,
                   cur, pre, rxpos>>

(***************************************************************************)
(* NIP-77: handle_nip77_open, handle_nip77_msg, handle_nip77_close.        *)
(***************************************************************************)
\* hex::decode(msg_hex) is Ok
HexDecodes(m) == m \in {"", "61", "62", "ff"}
\* neg.reconcile(&query) is Ok: the query starts with the protocol version
ReconcileOk(m) == m \in {"61", "62"}
\* a session: the sealed item ids and the last query it has reconciled
Session(items, query) == [items |-> items, last |-> query]
\* SELECT "eventId" FROM events: every row is added, the filter is not applied
NegItems(st) == {r.ev.id : r \in st}

\* a NEG-CLOSE that keeps the session
NegRemoveNone(sessions, s) == sessions
\* sessions.remove(sub_id)
NegRemove(sessions, s) == [sessions EXCEPT ![s] = <<>>]

\* the filter deserializes, the SELECT succeeds (dbok), the initial message
\* decodes and reconciles: the session is inserted and the response sent
N77_Open(c) ==
    \E dbok \in BOOLEAN :
        /\ pc[c] = "neg_open"
        /\ Sched(c)
        /\ IF /\ StrictOk(cur[c].filters)
              /\ dbok
              /\ HexDecodes(cur[c].param)
              /\ ReconcileOk(cur[c].param)
           THEN /\ negentropy_sessions' =
                      [negentropy_sessions EXCEPT ![c][cur[c].sub] =
                          <<Session(NegItems(store), cur[c].param)>>]
                /\ Emit(c, NegMsg(cur[c].sub, NegItems(store), cur[c].param))
           ELSE UNCHANGED <<negentropy_sessions, out>>
        /\ Goto(c, "done")
        /\ UNCHANGED <<query_failed, send_task, mode, served, scen, now, store,
                   users, cache,
                       hub, auth_pubkey, cur, lv, pre, subscriptions, rxpos>>

\* sessions.get_mut(sub_id), then decode and reconcile
N77_Msg(c) ==
    /\ pc[c] = "neg_msg"
    /\ Sched(c)
    /\ LET s == negentropy_sessions[c][cur[c].sub] IN
       IF s # <<>> /\ HexDecodes(cur[c].param) /\ ReconcileOk(cur[c].param)
       THEN /\ negentropy_sessions' =
                  [negentropy_sessions EXCEPT ![c][cur[c].sub] =
                      <<Session(s[1].items, cur[c].param)>>]
            /\ Emit(c, NegMsg(cur[c].sub, s[1].items, cur[c].param))
       ELSE UNCHANGED <<negentropy_sessions, out>>
    /\ Goto(c, "done")
    /\ UNCHANGED <<query_failed, send_task, mode, served, scen, now, store,
                   users, cache,
                   hub, auth_pubkey, cur, lv, pre, subscriptions, rxpos>>

N77_Close(c) ==
    /\ pc[c] = "neg_close"
    /\ Sched(c)
    /\ negentropy_sessions' =
          [negentropy_sessions EXCEPT ![c] = NegRemove(@, cur[c].sub)]
    /\ Goto(c, "done")
    /\ UNCHANGED <<query_failed, send_task, mode, served, scen, now, store,
                   users, cache,
                   hub, auth_pubkey, cur, lv, out, pre, subscriptions, rxpos>>

(***************************************************************************)
(* ClientMessage::Close, and the NOTICE for a frame no decoder takes.      *)
(***************************************************************************)
\* a CLOSE that leaves the registry as it is
UnsubscribeNone(subs, s) == subs
\* subscriptions.remove(&subscription_id.to_string())
Unsubscribe(subs, s) == [subs EXCEPT ![s] = <<>>]

HandleClose(c) ==
    /\ pc[c] = "close"
    /\ Sched(c)
    /\ subscriptions' = [subscriptions EXCEPT ![c] = Unsubscribe(@, cur[c].sub)]
    /\ Emit(c, Closed(cur[c].sub))
    /\ Goto(c, "done")
    /\ query_failed' = [query_failed EXCEPT ![c] = @ \ {cur[c].sub}]
    /\ UNCHANGED lv
    /\ UNCHANGED <<negentropy_sessions, send_task, mode,
                   served, scen, now, store, users, cache, hub, auth_pubkey,
                   cur, pre, rxpos>>

HandleInvalid(c) ==
    /\ pc[c] = "notice"
    /\ Sched(c)
    /\ Emit(c, Notice("Invalid message"))
    /\ Goto(c, "done")
    /\ UNCHANGED <<subscriptions, lv>>
    /\ UNCHANGED <<query_failed, negentropy_sessions, send_task, mode,
                   served, scen, now, store, users, cache, hub, auth_pubkey,
                   cur, pre, rxpos>>

(***************************************************************************)
(* handle_socket, the broadcast branch of select!: the next event of the   *)
(* broadcast receiver is matched against the subscriptions.                *)
(***************************************************************************)
\* one frame for each filter of the subscription that matches
SubFramesPerFilter(s, filters, e) ==
    [i \in 1..Cardinality({j \in 1..Len(filters) : MatchEvent(filters[j], e)})
        |-> EventFrame(s, e)]
\* for filter in filters { if filter.match_event(&event) { send; break } }
SubFrames(s, filters, e) ==
    IF MatchAny(filters, e) THEN <<EventFrame(s, e)>> ELSE <<>>

\* for (sub_id, filters) in &subscriptions, in the order of the iteration
RECURSIVE LiveFrames(_, _, _)
LiveFrames(order, subs, e) ==
    IF order = <<>> THEN <<>>
    ELSE SubFrames(Head(order), subs[Head(order)], e)
            \o LiveFrames(Tail(order), subs, e)

\* the registered subscription ids and the orders a HashMap may iterate in
Registered(subs) == {s \in SubIds : subs[s] # <<>>}
Orders(S) ==
    {q \in [1..Cardinality(S) -> S] :
        \A i \in 1..Cardinality(S) : \A j \in 1..Cardinality(S) :
            i # j => q[i] # q[j]}

\* the event broadcast_rx.recv() returns next
NextReceived(h, n) == h[Len(h) - n + 1]

Deliver(c) ==
    \E order \in Orders(Registered(subscriptions[c])) :
        /\ SelectReady(c)
        /\ Sched(c)
        /\ rxpos[c] > 0
        /\ rxpos' = [rxpos EXCEPT ![c] = @ - 1]
        /\ cur' = [cur EXCEPT ![c] =
                      Frame("BCAST", NextReceived(hub, rxpos[c]), "", "")]
        /\ out' = [out EXCEPT ![c] =
                      LiveFrames(order, subscriptions[c],
                                 NextReceived(hub, rxpos[c]))]
        /\ pre' = [pre EXCEPT ![c] = Snapshot(c)]
        /\ Goto(c, "done")
        /\ UNCHANGED <<query_failed, negentropy_sessions, send_task, mode,
                   served, scen, now, store, users, cache, hub,
                       auth_pubkey, lv, subscriptions>>

(***************************************************************************)
(* The environment: the clock, which advances between frames (a run of     *)
(* interleaving handlers is short: it starts at any time and the clock     *)
(* stands still during it), and the expiry of a cache entry (set_ex with   *)
(* CACHE_TTL_WHITELIST).                                                   *)
(***************************************************************************)
Tick ==
    /\ AllIdle
    /\ mode = "seq" \/ served = 0
    /\ now < MaxTime
    /\ now' = now + 1
    /\ UNCHANGED <<subscriptions, rxpos>>
    /\ UNCHANGED <<query_failed, negentropy_sessions, send_task, mode,
                   served, scen, store, users, cache, hub, auth_pubkey, pc, cur,
                   lv, out, pre>>

\* sender.send(msg) fails in send_task (a frame or the ping of the
\* heartbeat): the task breaks out of its loop
SendFail(c) ==
    /\ \E f \in scen : f.shape = "fault" /\ c \in f.on
    /\ mode = "conc" \/ AllIdle
    /\ pc[c] # "closed"
    /\ send_task[c]
    /\ send_task' = [send_task EXCEPT ![c] = FALSE]
    /\ UNCHANGED <<query_failed, negentropy_sessions, mode, served, scen, now,
                   store, users, cache, hub, auth_pubkey, pc, cur, lv, out,
                   pre, subscriptions, rxpos>>

CacheExpire ==
    \E p \in Pubkeys :
        /\ mode = "conc" \/ AllIdle
        /\ cache[p] # NoEntry
        /\ cache' = [cache EXCEPT ![p] = NoEntry]
        /\ UNCHANGED <<subscriptions, rxpos>>
        /\ UNCHANGED <<query_failed, negentropy_sessions, send_task, mode,
                   served, scen, now, store, users, hub, auth_pubkey, pc, cur,
                       lv, out, pre>>

Next ==
    \/ \E c \in Conns : Recv(c)
    \/ \E c \in Conns : Exit(c)
    \/ \E c \in Conns : Return(c)
    \/ \E c \in Conns : HE_Validate(c)
    \/ \E c \in Conns : WL_CacheGet(c)
    \/ \E c \in Conns : WL_DbLoad(c)
    \/ \E c \in Conns : WL_CacheSet(c)
    \/ \E c \in Conns : HE_Whitelist(c)
    \/ \E c \in Conns : HE_Replace(c)
    \/ \E c \in Conns : HE_Insert(c)
    \/ \E c \in Conns : HE_Ack(c)
    \/ \E c \in Conns : HE_Delete5(c)
    \/ \E c \in Conns : HE_VanishDelete(c)
    \/ \E c \in Conns : HE_VanishStatus(c)
    \/ \E c \in Conns : HE_VanishInvalidate(c)
    \/ \E c \in Conns : HE_Broadcast(c)
    \/ \E c \in Conns : HandleAuth(c)
    \/ \E c \in Conns : N86_CheckAdmin(c)
    \/ \E c \in Conns : N86_Exec(c)
    \/ \E c \in Conns : HR_Query(c)
    \/ \E c \in Conns : HR_SendRow(c)
    \/ \E c \in Conns : HR_Eose(c)
    \/ \E c \in Conns : HP_Query(c)
    \/ \E c \in Conns : HP_SendRow(c)
    \/ \E c \in Conns : HP_Eose(c)
    \/ \E c \in Conns : HandleClose(c)
    \/ \E c \in Conns : HandleInvalid(c)
    \/ \E c \in Conns : Deliver(c)
    \/ \E c \in Conns : N77_Open(c)
    \/ \E c \in Conns : N77_Msg(c)
    \/ \E c \in Conns : N77_Close(c)
    \/ \E c \in Conns : SendFail(c)
    \/ Tick
    \/ CacheExpire

\* handlers run one at a time
Spec == Init /\ [][Next]_vars
\* handlers of the two connections interleave at their await points
SpecConc == InitConc /\ [][Next]_vars

\* the steps of the relay: the tasks of the connections are scheduled, and
\* an await whose operation has completed returns; the clients and the
\* clock are free to stop
Progress ==
    \E c \in Conns :
        \/ Return(c) \/ HE_Validate(c) \/ WL_CacheGet(c) \/ WL_DbLoad(c)
        \/ WL_CacheSet(c) \/ HE_Whitelist(c) \/ HE_Replace(c) \/ HE_Insert(c)
        \/ HE_Ack(c) \/ HE_Delete5(c) \/ HE_VanishDelete(c)
        \/ HE_VanishStatus(c) \/ HE_VanishInvalidate(c) \/ HE_Broadcast(c)
        \/ HandleAuth(c) \/ N86_CheckAdmin(c) \/ N86_Exec(c) \/ HR_Query(c)
        \/ HR_SendRow(c) \/ HR_Eose(c) \/ HP_Query(c) \/ HP_SendRow(c)
        \/ HP_Eose(c) \/ HandleClose(c) \/ HandleInvalid(c) \/ Deliver(c)
        \/ N77_Open(c) \/ N77_Msg(c) \/ N77_Close(c)
\* interleaving handlers that keep running
SpecLive == SpecConc /\ WF_vars(Progress)

(***************************************************************************)
(* Vocabulary of the properties.                                           *)
(***************************************************************************)
\* the handler of connection c has returned and nothing has run since
Done(c) == pc[c] = "done"
\* connection c has handled an EVENT frame and answered it with OK true
Accepted(c) ==
    /\ Done(c)
    /\ cur[c].verb = "EVENT"
    /\ out[c] = <<OkFrame(cur[c].ev.id, TRUE, RsnEmpty)>>

\* the identity of an addressable event
Triple(e) == <<e.pubkey, e.kind, DTagOf(e.tags)>>
RowsOfTriple(st, e) == {r \in st : Triple(r.ev) = Triple(e)}
RowsOfId(st, id) == {r \in st : r.ev.id = id}
\* x is the more recent of two versions
Newer(x, y) ==
    \/ x.created_at > y.created_at
    \/ (x.created_at = y.created_at /\ x.id < y.id)
\* some expiration tag of e parses and lies before t
HasPastExpiration(e, t) ==
    \E i \in 1..Len(e.tags) :
        /\ Len(e.tags[i]) >= 2
        /\ e.tags[i][1] = "expiration"
        /\ ParseI64(e.tags[i][2]) # <<>>
        /\ ParseI64(e.tags[i][2])[1] < t
\* the users table whitelists pk: a row that is admin or ACTIVE
WhitelistedIn(us, pk) == us[pk].row /\ (us[pk].isAdmin \/ us[pk].status = "ACTIVE")
\* the event ids named by the e tags of e
Referenced(e) ==
    {e.tags[i][2] : i \in {j \in 1..Len(e.tags) :
                              Len(e.tags[j]) >= 2 /\ e.tags[j][1] = "e"}}
\* this step is a step of the handler of connection c
StepOf(c) == pc'[c] # pc[c] \/ lv'[c] # lv[c]

(***************************************************************************)
(* C1.  After an addressable event with (pubkey, kind, d) is accepted,     *)
(* handlers running one at a time, the store holds exactly one event with  *)
(* that triple, the incoming one, whatever the store held before (rows of  *)
(* (pubkey, kind) without any d tag included).                             *)
(***************************************************************************)
C1_OnePerTriple ==
    \A c \in Conns :
        (Accepted(c) /\ IsAddressable(cur[c].ev)) =>
            {r.ev : r \in RowsOfTriple(store, cur[c].ev)} = {cur[c].ev}

(***************************************************************************)
(* C2.  Of the accepted addressable events of one (pubkey, kind, d) the    *)
(* store retains the most recent one: a version that arrives after a more  *)
(* recent one does not displace it.                                        *)
(***************************************************************************)
C2_NewestRetained ==
    \A c \in Conns :
        (Accepted(c) /\ IsAddressable(cur[c].ev)) =>
            \A r \in RowsOfTriple(pre[c].store, cur[c].ev) :
                Newer(r.ev, cur[c].ev) => r.ev \in {q.ev : q \in store}

C4_DeleteOwnOnly ==
    \A c \in Conns :
        (Accepted(c) /\ cur[c].ev.kind = 5) =>
            \A r \in pre[c].store :
                (r.ev.pubkey # cur[c].ev.pubkey \/ r.ev.id \notin Referenced(cur[c].ev))
                    => r \in store

\* a deletion named an own event, which is gone, and a foreign one, which stays
C4_Witness ==
    \E c \in Conns :
        /\ Accepted(c)
        /\ cur[c].ev.kind = 5
        /\ \E r \in pre[c].store \ store : r.ev.id \in Referenced(cur[c].ev)
        /\ \E r \in store : /\ r.ev.id \in Referenced(cur[c].ev)
                            /\ r.ev.pubkey # cur[c].ev.pubkey

(***************************************************************************)
(* C5.  A validly signed, unexpired event whose pubkey the users table     *)
(* does not whitelist when the frame is handled is answered with           *)
(* "blocked: user not whitelisted" and is neither stored nor broadcast.    *)
(***************************************************************************)
C5_NotWhitelistedBlocked ==
    \A c \in Conns :
        (/\ Done(c)
         /\ cur[c].verb = "EVENT"
         /\ cur[c].ev.sig_ok
         /\ ~HasPastExpiration(cur[c].ev, now)
         /\ ~WhitelistedIn(pre[c].users, cur[c].ev.pubkey)) =>
            /\ out[c] = <<OkFrame(cur[c].ev.id, FALSE, RsnBlocked)>>
            /\ store = pre[c].store
            /\ hub = pre[c].hub

(***************************************************************************)
(* C6.  No two stored rows share an eventId, also when the handlers of     *)
(* the two connections interleave; ingesting an event whose eventId is     *)
(* stored adds no row and leaves the stored row as it is.                  *)
(***************************************************************************)
UniqueEventId ==
    \A r1 \in store : \A r2 \in store : r1.ev.id = r2.ev.id => r1 = r2

C7_OnlyVerified ==
    /\ \A r \in store : r.ev.sig_ok
    /\ \A i \in 1..Len(hub) : hub[i].sig_ok
    /\ \A c \in Conns :
        (pc[c] # "idle" /\ cur[c].verb = "EVENT" /\ ~cur[c].ev.sig_ok) =>
            store = pre[c].store /\ hub = pre[c].hub

\* a forged event has been answered while the store and the hub hold events
C7_Witness ==
    \E c \in Conns :
        /\ Done(c)
        /\ cur[c].verb = "EVENT"
        /\ ~cur[c].ev.sig_ok
        /\ store # {}
        /\ hub # <<>>

(***************************************************************************)
(* C8.  handle_event answers every EVENT frame it is called for (a frame   *)
(* that parses as a client message) with exactly one OK frame, and the     *)
(* reason is that of the first failing check in the order signature,       *)
(* expiration, authorization.                                              *)
(***************************************************************************)
C8_FirstFailureOneOk ==
    \A c \in Conns :
        (Done(c) /\ cur[c].verb = "EVENT" /\ cur[c].wf) =>
            LET e == cur[c].ev
                ok == out[c][1]
            IN /\ Len(out[c]) = 1
               /\ ok.typ = "OK"
               /\ ok.id = e.id
               /\ ~e.sig_ok => ok = OkFrame(e.id, FALSE, RsnInvalidSig)
               /\ (e.sig_ok /\ HasPastExpiration(e, now)) =>
                      ok = OkFrame(e.id, FALSE, RsnExpired)
               /\ (e.sig_ok /\ ~HasPastExpiration(e, now)
                      /\ ~lv[c].is_admin /\ ~lv[c].is_active) =>
                      ok = OkFrame(e.id, FALSE, RsnBlocked)
               /\ (e.sig_ok /\ ~HasPastExpiration(e, now)
                      /\ (lv[c].is_admin \/ lv[c].is_active)) =>
                      ok \in {OkFrame(e.id, TRUE, RsnEmpty),
                              OkFrame(e.id, FALSE, RsnInternal)}

\* an event that is expired and whose author is not whitelisted has been
\* answered, and so has one that is forged as well
C8_Witness ==
    \E c \in Conns :
        /\ Done(c)
        /\ cur[c].verb = "EVENT"
        /\ cur[c].ev.sig_ok
        /\ HasPastExpiration(cur[c].ev, now)
        /\ ~WhitelistedIn(users, cur[c].ev.pubkey)
        /\ out[c] = <<OkFrame(cur[c].ev.id, FALSE, RsnExpired)>>

(***************************************************************************)
(* C9.  Every OK frame with accepted = false has a reason that starts      *)
(* with "error:" or "blocked:", and every OK frame with accepted = true    *)
(* has the empty reason (replies to EVENT and to AUTH).                    *)
(***************************************************************************)
C9_ReasonPrefixes ==
    \A c \in Conns : \A i \in 1..Len(out[c]) :
        out[c][i].typ = "OK" =>
            IF out[c][i].accepted
            THEN out[c][i].reason = <<>>
            ELSE \/ StartsWith(out[c][i].reason, PfxError)
                 \/ StartsWith(out[c][i].reason, PfxBlocked)

(***************************************************************************)
(* C10.  The authenticated pubkey of a connection changes only by an AUTH  *)
(* event of kind 22242 that carries the challenge of this connection and   *)
(* verifies, and then to the pubkey of that event; an AUTH event without   *)
(* the right challenge is answered "error: invalid challenge"; a failed    *)
(* AUTH leaves the authentication state as it was.                         *)
(***************************************************************************)
HasChallenge(e, ch) ==
    \E i \in 1..Len(e.tags) :
        Len(e.tags[i]) >= 2 /\ e.tags[i][1] = "challenge" /\ e.tags[i][2] = ch

AuthOnlyByValidEvent(c) ==
    /\ (pc[c] # "idle" /\ cur[c].verb # "AUTH") => auth_pubkey[c] = pre[c].auth
    /\ (Done(c) /\ cur[c].verb = "AUTH") =>
          IF /\ cur[c].ev.kind = 22242
             /\ HasChallenge(cur[c].ev, Challenge(c))
             /\ cur[c].ev.sig_ok
          THEN /\ auth_pubkey[c] = <<cur[c].ev.pubkey>>
               /\ out[c] = <<OkFrame(cur[c].ev.id, TRUE, RsnAuthSuccess)>>
          ELSE /\ auth_pubkey[c] = pre[c].auth
               /\ Len(out[c]) = 1
               /\ out[c][1].typ = "OK"
               /\ ~out[c][1].accepted

\* as claimed: every AUTH event without the right challenge
C10_AuthByChallenge ==
    \A c \in Conns :
        /\ AuthOnlyByValidEvent(c)
        /\ (Done(c) /\ cur[c].verb = "AUTH"
                /\ ~HasChallenge(cur[c].ev, Challenge(c))) =>
              out[c] = <<OkFrame(cur[c].ev.id, FALSE, RsnAuthChallenge)>>

\* as amended: the kind is checked first, so the answer is "invalid
\* challenge" for the events of kind 22242 and "invalid kind for auth" for
\* the others
C10_AuthByChallengeOfKind ==
    \A c \in Conns :
        /\ AuthOnlyByValidEvent(c)
        /\ (Done(c) /\ cur[c].verb = "AUTH"
                /\ ~HasChallenge(cur[c].ev, Challenge(c))) =>
              out[c] = <<OkFrame(cur[c].ev.id, FALSE,
                                 IF cur[c].ev.kind = 22242 THEN RsnAuthChallenge
                                 ELSE RsnAuthKind)>>

\* an authenticated connection has refused the auth event made for the
\* challenge of the other connection and is authenticated as before
C10_Witness ==
    \E c \in Conns :
        /\ Done(c)
        /\ cur[c].verb = "AUTH"
        /\ cur[c].ev.kind = 22242
        /\ cur[c].ev.sig_ok
        /\ \E d \in Conns \ {c} : HasChallenge(cur[c].ev, Challenge(d))
        /\ out[c] = <<OkFrame(cur[c].ev.id, FALSE, RsnAuthChallenge)>>
        /\ pre[c].auth # <<>>
        /\ auth_pubkey[c] = pre[c].auth

(***************************************************************************)
(* C11.  An admin RPC call on a connection that is not authenticated, or   *)
(* whose authenticated pubkey has no user row with isAdmin = true when the *)
(* call (an object with id and method) arrives, is answered with the one   *)
(* JSON-RPC error -32000                                                   *)
(* "Unauthorized: Admin access required" and leaves the users table as it  *)
(* is, whatever the method, and whoever is authenticated on the other      *)
(* connection.                                                             *)
(***************************************************************************)
\* the frame of connection c arrived without an admin authentication
Unauthorized(c) ==
    \/ pre[c].auth = <<>>
    \/ ~pre[c].users[pre[c].auth[1]].row
    \/ ~pre[c].users[pre[c].auth[1]].isAdmin

C11_UnauthorizedRefused ==
    \A c \in Conns :
        (Done(c) /\ cur[c].verb = "RPC" /\ cur[c].wf /\ Unauthorized(c)) =>
            /\ out[c] = <<RpcError(-32000, MsgUnauthorized)>>
            /\ users = pre[c].users

\* an authenticated connection that is no admin has called ban_user for an
\* ACTIVE pubkey while the admin is authenticated on the other connection
C11_Witness ==
    \E c \in Conns : \E d \in Conns \ {c} :
        /\ Done(c)
        /\ cur[c].verb = "RPC"
        /\ cur[c].method = "ban_user"
        /\ cur[c].param = "P2"
        /\ pre[c].auth = <<"P1">>
        /\ auth_pubkey[d] = <<"PA">>
        /\ users["P2"].status = "ACTIVE"
        /\ out[c] = <<RpcError(-32000, MsgUnauthorized)>>

(***************************************************************************)
(* C12.  A call that passes the admin check is answered with the error     *)
(* code -32601 exactly when its method is none of list_allowed_users,      *)
(* allow_user, ban_user.                                                   *)
(***************************************************************************)
AdminMethods == {"list_allowed_users", "allow_user", "ban_user"}

C12_MethodNotFoundOnly ==
    \A c \in Conns :
        (/\ Done(c)
         /\ cur[c].verb = "RPC"
         /\ out[c] # <<RpcError(-32000, MsgUnauthorized)>>) =>
            /\ Len(out[c]) = 1
            /\ (out[c][1].typ = "RPC_ERROR" /\ out[c][1].code = -32601)
                  <=> cur[c].method \notin AdminMethods

(***************************************************************************)
(* C13.  When a call of the admin is answered with a result: after         *)
(* allow_user(P) the users table has a row of P with status ACTIVE, after  *)
(* ban_user(P) the status of P is REVOKED, and the result of               *)
(* list_allowed_users is the set of the pubkeys whose status is ACTIVE.    *)
(***************************************************************************)
C13_AdminEffects ==
    \A c \in Conns :
        (/\ Done(c)
         /\ cur[c].verb = "RPC"
         /\ Len(out[c]) = 1
         /\ out[c][1].typ = "RPC_RESULT") =>
            /\ cur[c].method = "allow_user" =>
                  /\ users[cur[c].param].row
                  /\ users[cur[c].param].status = "ACTIVE"
            /\ cur[c].method = "ban_user" =>
                  users[cur[c].param].status = "REVOKED"
            /\ cur[c].method = "list_allowed_users" =>
                  out[c][1].result =
                      {p \in Pubkeys : users[p].row /\ users[p].status = "ACTIVE"}

(***************************************************************************)
(* Vocabulary of the subscription properties.                              *)
(***************************************************************************)
\* connection c has answered a REQ with its historical batch and the EOSE
ReqAccepted(c) ==
    /\ Done(c)
    /\ cur[c].verb = "REQ"
    /\ out[c] # <<>>
    /\ out[c][Len(out[c])] = Eose(cur[c].sub)
\* the events of the historical batch of an answered REQ, in their order
Batch(c) == [i \in 1..(Len(out[c]) - 1) |-> out[c][i].ev]
\* connection c has matched an event of the hub against its subscriptions
Delivered(c) == Done(c) /\ cur[c].verb = "BCAST"
\* the frames of a sequence that carry the subscription id s
FramesOf(frames, s) == {i \in 1..Len(frames) : frames[i].sub = s}

(***************************************************************************)
(* C14.  After a REQ for sub_id that the relay has answered (canonical,    *)
(* nested or through the prefix search), the registry of the connection    *)
(* holds sub_id with the filters of this REQ.                              *)
(***************************************************************************)
C14_RegistryHoldsLatest ==
    \A c \in Conns :
        ReqAccepted(c) => subscriptions[c][cur[c].sub] = cur[c].filters

(***************************************************************************)
(* C15.  A CLOSE frame that carries a sub_id removes that subscription,    *)
(* emits exactly one CLOSED frame for it and leaves the other              *)
(* subscriptions of the connection as they are; an event                   *)
(* of the hub yields EVENT frames for registered subscriptions only, and   *)
(* a sub_id that is not registered becomes registered only by a REQ for    *)
(* it.                                                                     *)
(***************************************************************************)
CloseRemoves(c) ==
    (Done(c) /\ cur[c].verb = "CLOSE" /\ cur[c].wf) =>
        /\ out[c] = <<Closed(cur[c].sub)>>
        /\ subscriptions[c][cur[c].sub] = <<>>
        /\ \A s \in SubIds \ {cur[c].sub} : subscriptions[c][s] = pre[c].subs[s]

LiveOnlyRegistered(c) ==
    Delivered(c) =>
        \A i \in 1..Len(out[c]) : subscriptions[c][out[c][i].sub] # <<>>

C15_CloseEndsDelivery ==
    /\ [](\A c \in Conns : CloseRemoves(c) /\ LiveOnlyRegistered(c))
    /\ [][\A c \in Conns : \A s \in SubIds :
            (subscriptions[c][s] = <<>> /\ subscriptions'[c][s] # <<>>) =>
                (cur[c].verb = "REQ" /\ cur[c].sub = s)]_vars

\* a CLOSE has removed one of two subscriptions while an event that matches
\* the filters of the closed one waits in the broadcast receiver
C15_Witness ==
    \E c \in Conns :
        /\ Done(c)
        /\ cur[c].verb = "CLOSE"
        /\ \A s \in SubIds : pre[c].subs[s] # <<>>
        /\ rxpos[c] > 0
        /\ MatchAny(pre[c].subs[cur[c].sub], NextReceived(hub, rxpos[c]))

(***************************************************************************)
(* C16.  A REQ whose historical query succeeds is answered with the EVENT  *)
(* frames of its batch, all for its sub_id, and then exactly one EOSE; an  *)
(* event of the hub is taken up only while no handler runs on the          *)
(* connection, so no live EVENT frame comes between the frames of the      *)
(* batch and the EOSE, and the EVENT frames after the EOSE stem from the   *)
(* hub.                                                                    *)
(***************************************************************************)
BatchThenEose(c) ==
    /\ (pc[c] \in {"req_send", "req_eose", "preq_send", "preq_eose"}) =>
          \A i \in 1..Len(out[c]) :
              \E j \in 1..Len(lv[c].rows) :
                  out[c][i] = EventFrame(cur[c].sub, lv[c].rows[j])
    /\ (Done(c) /\ cur[c].verb = "REQ"
             /\ \A i \in 1..Len(out[c]) : out[c][i].typ # "NOTICE") =>
          /\ ReqAccepted(c)
          /\ \A i \in 1..(Len(out[c]) - 1) :
                \E j \in 1..Len(lv[c].rows) :
                    out[c][i] = EventFrame(cur[c].sub, lv[c].rows[j])
    /\ Delivered(c) =>
          \A i \in 1..Len(out[c]) :
              out[c][i].typ = "EVENT" /\ out[c][i].ev = cur[c].ev

C16_BatchBeforeEose ==
    /\ [](\A c \in Conns : BatchThenEose(c))
    /\ [][\A c \in Conns :
            (cur'[c].verb = "BCAST" /\ cur'[c] # cur[c]) =>
                (pc[c] = "idle" /\ out[c] = <<>>)]_vars

\* a REQ has been answered with a batch and the EOSE while an event that
\* matches its filters waits in the broadcast receiver
C16_Witness ==
    \E c \in Conns :
        /\ ReqAccepted(c)
        /\ Len(out[c]) >= 2
        /\ rxpos[c] > 0
        /\ MatchAny(cur[c].filters, NextReceived(hub, rxpos[c]))

(***************************************************************************)
(* C17.  For an event received from the hub the connection emits, for      *)
(* each registered subscription, exactly one EVENT frame when at least one *)
(* of its filters matches and none when no filter matches.                 *)
(***************************************************************************)
C17_OneFramePerSubscription ==
    \A c \in Conns :
        Delivered(c) =>
            \A s \in SubIds :
                /\ \A i \in FramesOf(out[c], s) : out[c][i] = EventFrame(s, cur[c].ev)
                /\ Cardinality(FramesOf(out[c], s)) =
                      IF /\ subscriptions[c][s] # <<>>
                         /\ \E i \in 1..Len(subscriptions[c][s]) :
                                MatchEvent(subscriptions[c][s][i], cur[c].ev)
                      THEN 1 ELSE 0

\* an event has matched two filters of one subscription and none of another
C17_Witness ==
    \E c \in Conns : \E s \in SubIds : \E t \in SubIds :
        /\ Delivered(c)
        /\ Len(subscriptions[c][s]) = 2
        /\ \A i \in 1..2 : MatchEvent(subscriptions[c][s][i], cur[c].ev)
        /\ subscriptions[c][t] # <<>>
        /\ ~MatchAny(subscriptions[c][t], cur[c].ev)
        /\ out[c] = <<EventFrame(s, cur[c].ev)>>

(***************************************************************************)
(* C19.  The historical batch of an answered REQ (canonical, nested or     *)
(* prefix search) with limit L has at most min(L, 500) events, at most     *)
(* 100 when the filter has no limit; every event of it matches a filter    *)
(* of the REQ in every dimension the filter specifies; the events come in  *)
(* descending created_at order.                                            *)
(***************************************************************************)
\* a filter matches an event: ids, authors (full or prefix), kinds, since,
\* until
MatchesFilter(f, e) ==
    /\ f.ids = {} \/ e.id \in f.ids
    /\ f.authors = {} \/ \E a \in f.authors : StartsWith(Hex(e.pubkey), a)
    /\ f.kinds = {} \/ e.kind \in f.kinds
    /\ f.since = <<>> \/ e.created_at >= f.since[1]
    /\ f.until = <<>> \/ e.created_at <= f.until[1]

\* the greatest size of the batch of a REQ whose first filter is f
BatchCap(f) == IF f.limit # <<>> THEN Min(f.limit[1], 500) ELSE 100

C19_BatchBounded ==
    \A c \in Conns :
        ReqAccepted(c) =>
            /\ Len(Batch(c)) <= BatchCap(cur[c].filters[1])
            /\ \A i \in 1..Len(Batch(c)) :
                  \E k \in 1..Len(cur[c].filters) :
                      MatchesFilter(cur[c].filters[k], Batch(c)[i])
            /\ \A i \in 1..Len(Batch(c)) : \A j \in 1..Len(Batch(c)) :
                  i < j => Batch(c)[i].created_at >= Batch(c)[j].created_at

(***************************************************************************)
(* C20.  A validly signed event with an expiration tag that parses and     *)
(* lies before the clock is answered "error: event expired" and is         *)
(* neither stored nor broadcast; the row of an accepted event has as       *)
(* expiresAt the greatest value of its expiration tags that parse, and     *)
(* null when none parses.                                                  *)
(***************************************************************************)
\* the values of the expiration tags of e that parse
Expirations(e) ==
    {ParseI64(e.tags[i][2])[1] :
        i \in {j \in 1..Len(e.tags) :
                  /\ Len(e.tags[j]) >= 2
                  /\ e.tags[j][1] = "expiration"
                  /\ ParseI64(e.tags[j][2]) # <<>>}}
\* the latest of them, <<>> when there is none
LatestExpiration(e) ==
    IF Expirations(e) = {} THEN <<>>
    ELSE <<CHOOSE x \in Expirations(e) : \A y \in Expirations(e) : y <= x>>

C20_ExpirationLatest ==
    \A c \in Conns :
        /\ (/\ Done(c)
            /\ cur[c].verb = "EVENT"
            /\ cur[c].ev.sig_ok
            /\ HasPastExpiration(cur[c].ev, now)) =>
               /\ out[c] = <<OkFrame(cur[c].ev.id, FALSE, RsnExpired)>>
               /\ store = pre[c].store
               /\ hub = pre[c].hub
        /\ Accepted(c) =>
               \A r \in RowsOfId(store, cur[c].ev.id) \ pre[c].store :
                   r.expiresAt = LatestExpiration(cur[c].ev)

(***************************************************************************)
(* C18.  When an accepted event E is stored and a connection has issued a  *)
(* REQ with a filter that matches E, the connection is eventually sent E   *)
(* in an EVENT frame, for every interleaving of the handlers.  Stated for  *)
(* the REQ whose historical query has succeeded while E is stored and      *)
(* unexpired: in a behaviour with such a REQ the connection is sent E at   *)
(* some point, before or after the REQ.                                    *)
(***************************************************************************)
\* the historical query of the REQ of connection c has just returned
QueryReturned(c) ==
    /\ cur[c].verb = "REQ"
    /\ pc[c] \in {"req_send", "req_eose"}
    /\ out[c] = <<>>
\* an unexpired row of the store holds e
StoredNow(e) == \E r \in store : r.ev = e /\ Unexpired(r, now)
\* the running handler or delivery of connection c has sent e
SentEvent(c, e) ==
    \E i \in 1..Len(out[c]) : out[c][i].typ = "EVENT" /\ out[c][i].ev = e

C18_EventuallySent ==
    \A c \in Conns :
        <>(QueryReturned(c) /\ StoredNow(N1) /\ MatchAny(cur[c].filters, N1))
            => <>SentEvent(c, N1)

(***************************************************************************)
(* C21.  Every inbound text frame that matches no row of the dispatch      *)
(* table (text that is no JSON, a JSON scalar, an empty array, an array    *)
(* whose first element is no known verb, a JSON object without method or   *)
(* id, a known verb with malformed arguments) is answered with a NOTICE    *)
(* frame and changes nothing in the subscription registry, the             *)
(* reconciliation table, the authentication state or the store.            *)
(***************************************************************************)
KnownVerbs ==
    {"EVENT", "REQ", "CLOSE", "AUTH", "NEG-OPEN", "NEG-MSG", "NEG-CLOSE"}
\* the text frame f matches no row of the dispatch table
Malformed(f) ==
    \/ f.shape \in {"text", "scalar"}
    \/ f.shape = "object" /\ ~f.wf
    \/ f.shape = "array" /\ f.verb = ""
    \/ f.shape = "array" /\ f.verb \notin KnownVerbs \cup {"", "BCAST"}
    \/ f.shape = "array" /\ f.verb \in KnownVerbs /\ ~f.wf

C21_MalformedNoticed ==
    \A c \in Conns :
        (Done(c) /\ Malformed(cur[c])) =>
            /\ Len(out[c]) = 1
            /\ out[c][1].typ = "NOTICE"
            /\ subscriptions[c] = pre[c].subs
            /\ negentropy_sessions[c] = pre[c].neg
            /\ auth_pubkey[c] = pre[c].auth
            /\ store = pre[c].store

(***************************************************************************)
(* C22.  On each connection a reconciliation session for sub_id exists     *)
(* from a successful NEG-OPEN for that id until the next NEG-CLOSE for it  *)
(* (or the end of the connection): a well-formed NEG-MSG for an id with a  *)
(* session advances the session and is answered with one NEG-MSG, a        *)
(* NEG-MSG for an id without a session emits no frame and changes no       *)
(* state; REQ and CLOSE never create or remove a session, and NEG-CLOSE    *)
(* never removes a subscription.                                           *)
(***************************************************************************)
\* a hex message the negentropy protocol takes
WellFormedMsg(m) == m \in {"61", "62"}
\* connection c has handled a NEG frame with all its elements
NegDone(c, verb) == Done(c) /\ cur[c].verb = verb /\ cur[c].wf

SessionLifecycle(c) ==
    /\ NegDone(c, "NEG-OPEN") =>
          /\ \A s \in SubIds \ {cur[c].sub} :
                negentropy_sessions[c][s] = pre[c].neg[s]
          /\ IF out[c] # <<>>
             THEN /\ out[c] = <<NegMsg(cur[c].sub, {r.ev.id : r \in pre[c].store},
                                       cur[c].param)>>
                  /\ negentropy_sessions[c][cur[c].sub] =
                        <<[items |-> {r.ev.id : r \in pre[c].store},
                           last |-> cur[c].param]>>
             ELSE negentropy_sessions[c] = pre[c].neg
    /\ NegDone(c, "NEG-MSG") =>
          IF pre[c].neg[cur[c].sub] = <<>>
          THEN /\ out[c] = <<>>
               /\ negentropy_sessions[c] = pre[c].neg
               /\ subscriptions[c] = pre[c].subs
               /\ auth_pubkey[c] = pre[c].auth
               /\ store = pre[c].store /\ users = pre[c].users /\ hub = pre[c].hub
          ELSE WellFormedMsg(cur[c].param) =>
               /\ out[c] = <<NegMsg(cur[c].sub, pre[c].neg[cur[c].sub][1].items,
                                    cur[c].param)>>
               /\ negentropy_sessions[c] =
                     [pre[c].neg EXCEPT ![cur[c].sub] =
                         <<[items |-> pre[c].neg[cur[c].sub][1].items,
                            last |-> cur[c].param]>>]
    /\ NegDone(c, "NEG-CLOSE") =>
          /\ negentropy_sessions[c][cur[c].sub] = <<>>
          /\ \A s \in SubIds \ {cur[c].sub} :
                negentropy_sessions[c][s] = pre[c].neg[s]
          /\ subscriptions[c] = pre[c].subs
    /\ (pc[c] \notin {"idle", "closed"} /\ cur[c].verb \in {"REQ", "CLOSE"}) =>
          negentropy_sessions[c] = pre[c].neg

C22_SessionLifecycle ==
    /\ [](\A c \in Conns : SessionLifecycle(c))
    /\ [][\A c \in Conns : \A s \in SubIds :
            /\ (negentropy_sessions[c][s] = <<>>
                    /\ negentropy_sessions'[c][s] # <<>>) =>
                  (cur[c].verb = "NEG-OPEN" /\ cur[c].sub = s /\ out'[c] # <<>>)
            /\ (negentropy_sessions[c][s] # <<>>
                    /\ negentropy_sessions'[c][s] = <<>>) =>
                  \/ cur[c].verb = "NEG-CLOSE" /\ cur[c].sub = s
                  \/ pc'[c] = "closed"]_vars

\* a NEG-MSG has advanced the session of an id that is also the id of a
\* registered subscription, over a store that is not empty
C22_Witness ==
    \E c \in Conns :
        /\ NegDone(c, "NEG-MSG")
        /\ pre[c].neg[cur[c].sub] # <<>>
        /\ pre[c].neg[cur[c].sub][1].last # cur[c].param
        /\ pre[c].neg[cur[c].sub][1].items # {}
        /\ subscriptions[c][cur[c].sub] # <<>>
        /\ Len(out[c]) = 1

(***************************************************************************)
(* C23.  When writing an outbound frame (a heartbeat ping or any other     *)
(* frame) to the transport fails, the session terminates: the receive      *)
(* loop of the connection eventually exits, without a Close frame or a     *)
(* read error from the client.                                             *)
(***************************************************************************)
\* handle_socket has left its loop
LoopExited(c) == pc[c] = "closed"

C23_SendFailureTerminates ==
    \A c \in Conns : [](~send_task[c] => <>LoopExited(c))

(***************************************************************************)
(* C24.  For an accepted event the steps take effect in the order persist, *)
(* post-persist side effects (kind-5 deletions; kind-62 purge and status   *)
(* change), OK true, publish on the hub: when the OK true of a kind-5 or   *)
(* kind-62 event has been emitted, the deletions it causes are applied to  *)
(* the store, and the hub changes only after the OK.                       *)
(***************************************************************************)
\* the handler of connection c has emitted the OK true of its EVENT frame
OkTrueEmitted(c) ==
    /\ cur[c].verb = "EVENT"
    /\ out[c] = <<OkFrame(cur[c].ev.id, TRUE, RsnEmpty)>>

C24_EffectsBeforeOk ==
    \A c \in Conns :
        /\ (OkTrueEmitted(c) /\ cur[c].ev.kind = 5) =>
              \A r \in store :
                  ~(r.ev.id \in Referenced(cur[c].ev)
                        /\ r.ev.pubkey = cur[c].ev.pubkey)
        /\ (OkTrueEmitted(c) /\ cur[c].ev.kind = 62) =>
              /\ \A r \in store : r.ev.pubkey # cur[c].ev.pubkey
              /\ users[cur[c].ev.pubkey].row =>
                    users[cur[c].ev.pubkey].status = "VANISHED"
        /\ (pc[c] # "idle" /\ cur[c].verb = "EVENT" /\ hub # pre[c].hub) =>
              OkTrueEmitted(c)

(***************************************************************************)
(* C25.  Once a kind-62 event of a non-admin pubkey P has been fully       *)
(* processed, the whitelist cache never again yields is_active = true for  *)
(* P (until an admin re-allows P), for every interleaving with the         *)
(* ingestion of other events of P on other connections: while P is         *)
(* VANISHED and no vanish of P is still running, no step writes a cache    *)
(* entry for P that says active.                                           *)
(***************************************************************************)
\* a kind-62 event of p has been processed up to and including the
\* invalidation of the cache, and p has not been re-allowed
VanishSettled(p) ==
    /\ users[p].row
    /\ ~users[p].isAdmin
    /\ users[p].status = "VANISHED"
    /\ \A c \in Conns :
          ~(/\ cur[c].verb = "EVENT"
            /\ cur[c].ev.kind = 62
            /\ cur[c].ev.pubkey = p
            /\ pc[c] = "van_inv")
\* what a lookup that hits this cache entry returns as is_active
YieldsActive(entry) == entry # NoEntry /\ entry[2] = "1"

C25_VanishedStaysBlocked ==
    [][\A p \in Pubkeys :
          (VanishSettled(p) /\ cache'[p] # cache[p]) => ~YieldsActive(cache'[p])]_vars

(***************************************************************************)
(* C26.  check_whitelist_cached is a read-through cache: when it has       *)
(* consulted the user store (the cache is absent, unreachable or has no    *)
(* entry for the pubkey) it returns the pair of the row of the pubkey,     *)
(* (false, false) for an absent row, and leaves that pair cached when the  *)
(* cache is reachable; otherwise it returns the entry the cache holds,     *)
(* without consulting the user store.  (Handlers one at a time; a lookup   *)
(* of the user store that fails gives no pair.)                            *)
(***************************************************************************)
\* check_whitelist_cached has returned to the handler of connection c
WhitelistReturned(c) == pc[c] = "wl_chk"
\* the pair the users table holds for a row
StoredPair(u) == <<u.row /\ u.isAdmin, u.row /\ u.status = "ACTIVE">>
\* the text of a cache entry for a pair
PairText(pair) ==
    <<IF pair[1] THEN "1" ELSE "0", IF pair[2] THEN "1" ELSE "0">>

C26_ReadThrough ==
    \A c \in Conns :
        WhitelistReturned(c) =>
            LET p == cur[c].ev.pubkey
                pair == <<lv[c].is_admin, lv[c].is_active>>
            IN /\ lv[c].row.res = "none" =>
                     /\ cache[p] # NoEntry
                     /\ cache[p] = PairText(pair)
                     /\ ~lv[c].cached
               /\ lv[c].row.res = "ok" =>
                     /\ lv[c].row.val = users[p]
                     /\ pair = StoredPair(users[p])
               /\ (lv[c].row.res # "none" /\ lv[c].cached) =>
                     cache[p] = PairText(pair)

\* a lookup has returned the cached entry of a pubkey whose row says
\* otherwise by now, and another has loaded and cached the pair of an
\* absent row
C26_Witness ==
    /\ \E c \in Conns :
          /\ WhitelistReturned(c)
          /\ lv[c].row.res = "none"
          /\ <<lv[c].is_admin, lv[c].is_active>> # StoredPair(users[cur[c].ev.pubkey])
    /\ cache["P3"] = <<"0", "0">>

(***************************************************************************)
(* C30.  Every entry the whitelist cache holds for a pubkey is the         *)
(* (is_admin, is_active) pair the user store held for the pubkey when it   *)
(* was loaded; a lookup of the user store that fails is not written to     *)
(* the cache as (false, false).  (Handlers one at a time: the row does     *)
(* not change between the load and the write.)                             *)
(***************************************************************************)
C30_CacheHoldsLoadedPair ==
    [][\A p \in Pubkeys :
          (cache'[p] # cache[p] /\ cache'[p] # NoEntry) =>
              cache'[p] = PairText(StoredPair(users[p]))]_vars

(***************************************************************************)
(* C27.  When the two connections concurrently ingest two different        *)
(* accepted addressable events of the same (pubkey, kind, d), the store    *)
(* ends with exactly one event of that triple, for every interleaving of   *)
(* their delete-then-insert steps.                                         *)
(***************************************************************************)
\* both handlers have answered OK true and neither has returned
BothAccepted ==
    /\ Accepted(1) /\ Accepted(2)
    /\ IsAddressable(cur[1].ev) /\ IsAddressable(cur[2].ev)
    /\ cur[1].ev # cur[2].ev
    /\ Triple(cur[1].ev) = Triple(cur[2].ev)

C27_OneAfterConcurrentReplace ==
    BothAccepted => Cardinality(RowsOfTriple(store, cur[1].ev)) = 1

(***************************************************************************)
(* C28.  Whenever handle_event answers an EVENT frame with OK false        *)
(* (invalid signature, expired, not whitelisted, internal error on         *)
(* persist), the stored events are what they were before the frame and     *)
(* nothing is published on the hub, also for an addressable event whose    *)
(* insert fails after its replacement step has run.                        *)
(***************************************************************************)
\* connection c has answered its EVENT frame with OK false
Refused(c) ==
    /\ Done(c)
    /\ cur[c].verb = "EVENT"
    /\ cur[c].wf
    /\ Len(out[c]) = 1
    /\ out[c][1].typ = "OK"
    /\ ~out[c][1].accepted

C28_RefusedChangesNothing ==
    \A c \in Conns : Refused(c) => (store = pre[c].store /\ hub = pre[c].hub)

(***************************************************************************)
(* C29.  Once a stored event X has been removed by a kind-5 deletion of    *)
(* its own author, X stays deleted: no later sequence of operations, in    *)
(* particular submitting X again, makes X present in the store.            *)
(***************************************************************************)
StoredEv(e) == \E r \in store : r.ev = e
\* a kind-5 event of the author of e that names e has been accepted, e was
\* stored when it arrived and is stored no more
RemovedByDeletion(e) ==
    \E c \in Conns :
        /\ Accepted(c)
        /\ cur[c].ev.kind = 5
        /\ cur[c].ev.pubkey = e.pubkey
        /\ e.id \in Referenced(cur[c].ev)
        /\ \E r \in pre[c].store : r.ev = e
        /\ ~StoredEv(e)

C29_DeletedStaysDeleted == [](RemovedByDeletion(N1) => []~StoredEv(N1))

(***************************************************************************)
(* C31.  When the historical query of a REQ fails, the connection emits    *)
(* one NOTICE and no EOSE for the sub_id and keeps running; the            *)
(* subscription registered by that REQ stays in the registry (until a      *)
(* CLOSE or a new REQ for the id), and a broadcast event that matches its  *)
(* filters is delivered under that sub_id.                                 *)
(***************************************************************************)
\* handle_req has returned for the frame of connection c after fetch_all
\* returned Err
ReqQueryFailed(c) ==
    /\ Done(c)
    /\ cur[c].verb = "REQ"
    /\ cur[c].wf
    /\ StrictOk(cur[c].filters)
    /\ cur[c].sub \in query_failed[c]

FailedQueryOutcome(c) ==
        /\ ReqQueryFailed(c) =>
              /\ out[c] = <<Notice("Failed to query events")>>
              /\ subscriptions[c][cur[c].sub] = cur[c].filters
        /\ \A s \in query_failed[c] : subscriptions[c][s] # <<>>
        /\ Delivered(c) =>
              \A s \in query_failed[c] :
                  MatchAny(subscriptions[c][s], cur[c].ev) =>
                      \E i \in 1..Len(out[c]) :
                          out[c][i] = EventFrame(s, cur[c].ev)

\* the outcome above, and the receive loop goes on: the next step of the
\* connection is the return to select!
C31_FailedQueryKeepsSubscription ==
    /\ [](\A c \in Conns : FailedQueryOutcome(c))
    /\ [][\A c \in Conns :
            ReqQueryFailed(c) => pc'[c] \in {"done", "idle"}]_vars

\* a connection whose REQ for "s" ended with a failed query has received N1
\* from the hub and sent it under "s"
C31_Witness ==
    \E c \in Conns :
        /\ Delivered(c)
        /\ "s" \in query_failed[c]
        /\ cur[c].ev = N1
        /\ out[c] = <<EventFrame("s", N1)>>

(***************************************************************************)
(* C32.  The historical batch of a REQ with one filter and limit L is      *)
(* complete up to the limit: it holds the min(L, 500) most recent stored,  *)
(* unexpired events that match the filter, or all of them when there are   *)
(* fewer, also when the filter constrains ids.                             *)
(***************************************************************************)
\* the stored, unexpired events that match the filter f
Matching(f) ==
    {r.ev : r \in {q \in store : Unexpired(q, now) /\ MatchEvent(f, q.ev)}}
BatchSet(c) == {Batch(c)[i] : i \in 1..Len(Batch(c))}

C32_BatchComplete ==
    \A c \in Conns :
        (/\ ReqAccepted(c)
         /\ cur[c].wf
         /\ StrictOk(cur[c].filters)
         /\ Len(cur[c].filters) = 1) =>
            LET f == cur[c].filters[1]
                M == Matching(f)
                B == BatchSet(c)
            IN /\ B \subseteq M
               /\ Cardinality(B) = Min(ReqLimit(cur[c].filters), Cardinality(M))
               /\ \A e \in M \ B : \A b \in B : b.created_at >= e.created_at

====
